---- MODULE Spec2Model ----
(***************************************************************************)
(* Model of exceljs-stream-utils: the bounded-concurrency batch processor  *)
(* (processXlsxLarge), the time-zone wall-clock conversion and the row     *)
(* writers (objectsToXlsx, objectsToXlsxStream).                           *)
(***************************************************************************)
EXTENDS Integers, Sequences, FiniteSets, TLC

(***************************************************************************)
(* Bounds of the model.                                                    *)
(***************************************************************************)
MaxRows == 4
MaxBatchSize == 3
MaxConcurrency == 3

VARIABLES
    \* ---- processXlsxLarge ----
    batchSize,      \* opts.batchSize
    concurrency,    \* opts.concurrency
    srcLen,         \* number of records the reader will emit
    pulled,         \* records pulled so far from xlsxToObjects
    batch,          \* let batch: T[]
    items,          \* runBatch's argument
    k,              \* position of the for..of loop of runBatch in items
    inFlight,       \* new Set<Promise<void>>(), in insertion order
    pstate,         \* state of the promise made for each record's handler call
    reactions,      \* reactions registered on each pending promise, in order
    queue,          \* the microtask (promise job) queue
    racePending,    \* id of the Promise.race runBatch awaits, 0 if none
    allPending,     \* whether a Promise.all is awaited and not yet settled
    allRemaining,   \* members of that Promise.all not yet fulfilled
    final,          \* runBatch was called after the for-await loop (line 668)
    pc,             \* position of processXlsxLarge / runBatch
    result,         \* how the promise of processXlsxLarge settled
    launchLog,      \* the records whose handler was called, in call order
    observed,       \* whether an await of runBatch has received a rejection
    \* ---- time-zone conversion ----
    zone,           \* timeZone, as the offsets the time-zone database gives it
    procOffset,     \* offset of the local time zone of the running process
    mode,           \* which conversion is run: "roundTrip", "wall" or "write"
    instant,        \* the input: a UTC instant, or a wall-clock reading as UTC
    parts,          \* DateTimeParts in hand
    naive,          \* the Date utcDateToExcelLocalDate returns
    localAsUtc,     \* const localAsUtc of localDateTimeInZoneToUtc
    guess,          \* let guess
    attempt,        \* let attempt
    lookups,        \* calls of getTimeZoneOffsetMs made by the loop
    converted,      \* the Date localDateTimeInZoneToUtc returns
    zpc,            \* position in the conversion
    \* ---- objectsToXlsx / objectsToXlsxStream ----
    variant,        \* "plain": objectsToXlsx; "stream": objectsToXlsxStream
    outputIsWritable, \* output is a Writable (else a file path)
    columns,        \* opts.columns
    wTimeZone,      \* opts.timeZone
    dateColumns,    \* opts.dateColumns, as the set made of it
    rowsLen,        \* number of elements of rows
    wRows,          \* the elements rowIterator.next() has yielded, in order
    callerRows,     \* the same objects as the caller finds them afterwards
    sheetColumns,   \* sheet.columns
    sheetRows,      \* the objects handed to sheet.addRow, in order
    wPulled,        \* elements obtained from rowIterator.next()
    written,        \* rows added to the sheet and committed
    sinkCreated,    \* the WorkbookWriter exists and the sheet has its columns
    needDrain,      \* output.writableNeedDrain
    listening,      \* the 'drain' and 'error' listeners of waitForWritableDrain
    sinkErrored,    \* the sink has emitted 'error'
    overfill,       \* rows written since the sink began to need draining
    wpc,            \* position of the writer
    wresult,        \* how the promise of the writer settled
    \* ---- the conversion of one cell value ----
    cValue,         \* the value maybeConvertToArray is given
    cColumn,        \* the name of the cell's column
    cOpts,          \* arrayColumns, arrayDelimiter, trimArrayItems,
                    \* removeEmptyArrayItems
    cOut,           \* the value maybeConvertToArray returns
    cpc,            \* position of the conversion
    \* ---- xlsxToObjects ----
    rOpts,          \* opts, with the defaults filled in
    rpc,            \* position of the generator
    sheetsSeen,     \* worksheets the workbook reader has handed over
    skipped,        \* worksheets passed over by the sheet filter
    curSheet,       \* getWorksheetName of the worksheet in hand
    headers,        \* let headers
    headerValues,   \* the values of the row the headers were made of
    lastRow,        \* the row the worksheet handed over last
    lastOutcome,    \* what was done with it
    lastRecord,     \* the record yielded last
    emitCount,      \* records yielded so far
    headerRowSeen,  \* the row numbered headerRowNumber this worksheet handed over
    sheetEmits      \* records yielded from the worksheet in hand

procVars == <<batchSize, concurrency, srcLen, pulled, batch, items, k, inFlight,
              pstate, reactions, queue, racePending, allPending, allRemaining,
              final, pc, result, launchLog, observed>>

zoneVars == <<zone, procOffset, mode, instant, parts, naive, localAsUtc, guess,
              attempt, lookups, converted, zpc>>

writeVars == <<variant, outputIsWritable, columns, wTimeZone, dateColumns,
               rowsLen, wRows, callerRows, wPulled, written, sinkCreated,
               sheetColumns, sheetRows, needDrain, listening, sinkErrored,
               overfill, wpc, wresult>>

cellVars == <<cValue, cColumn, cOpts, cOut, cpc>>

readVars == <<rOpts, rpc, sheetsSeen, skipped, curSheet, headers, headerValues,
              lastRow, lastOutcome, lastRecord, emitCount, headerRowSeen,
              sheetEmits>>

vars == <<procVars, zoneVars, writeVars, cellVars, readVars>>

\* What each part of the program leaves alone.
notProcVars == <<zoneVars, writeVars, cellVars, readVars>>
notZoneVars == <<procVars, writeVars, cellVars, readVars>>
notWriteVars == <<procVars, zoneVars, cellVars, readVars>>
notCellVars == <<procVars, zoneVars, writeVars, readVars>>
notReadVars == <<procVars, zoneVars, writeVars, cellVars>>

(***************************************************************************)
(* processXlsxLarge                                                        *)
(***************************************************************************)
Rows == 1..MaxRows
OptionValues(max) == {0 - 1} \cup (0..max)

Pending(st) == st \in {"scheduled", "running"}
Settled(st) == st \in {"fulfilled", "rejected"}

Job(kind, i, id, ok) == [k |-> kind, i |-> i, id |-> id, ok |-> ok]
Reaction(kind, id) == [k |-> kind, id |-> id]

ValidOptionsBatchOnly(b, c) == ~(b <= 0)

\* The option check of lines 630-636.
ValidOptions(b, c) == ~(b <= 0) /\ ~(c <= 0)

AdmissionFullOffByOne(size, c) == size > c

\* The admission test of line 650.
AdmissionFull(size, c) == size >= c

BatchFullOffByOne(len, b) == len > b

\* The batch test of line 661.
BatchFull(len, b) == len >= b

AllMembersNone(set) == <<>>

\* The promises runBatch hands to Promise.all at line 655.
AllMembers(set) == set

\* The promises runBatch hands to Promise.race at line 651.
RaceMembers(set) == set

ItemAtFromEnd(its, n) == its[Len(its) + 1 - n]

\* Line 643: for (const item of items) takes the items in array order.
ItemAt(its, n) == its[n]

AwaitNeverThrows(ok) == FALSE

\* Lines 662 and 668: await of a rejected runBatch throws.
AwaitThrows(ok) == ~ok

RemoveFromSeq(s, x) == SelectSeq(s, LAMBDA y : y # x)
InSeq(s, x) == \E n \in 1..Len(s) : s[n] = x

\* Promise.race / Promise.all call then() on every member: a reaction is
\* registered on a pending member, a job is queued at once for a settled one.
RegisterOn(members, st, rs, kind, id) ==
    [i \in Rows |-> IF InSeq(members, i) /\ Pending(st[i])
                    THEN Append(rs[i], Reaction(kind, id))
                    ELSE rs[i]]

JobsForSettled(members, st, kind, id) ==
    LET done == SelectSeq(members, LAMBDA i : Settled(st[i]))
    IN  [n \in 1..Len(done) |-> Job(kind, done[n], id, st[done[n]] = "fulfilled")]

\* The jobs queued when a promise settles: its reactions, in registration order.
JobsOnSettle(i, rs, ok) ==
    [n \in 1..Len(rs) |-> Job(rs[n].k, i, rs[n].id, ok)]

ProcInit ==
    /\ batchSize \in OptionValues(MaxBatchSize)
    /\ concurrency \in OptionValues(MaxConcurrency)
    /\ srcLen \in 0..MaxRows
    /\ pulled = 0
    /\ batch = <<>>
    /\ items = <<>>
    /\ k = 1
    /\ inFlight = <<>>
    /\ pstate = [i \in Rows |-> "none"]
    /\ reactions = [i \in Rows |-> <<>>]
    /\ queue = <<>>
    /\ racePending = 0
    /\ allPending = FALSE
    /\ allRemaining = 0
    /\ final = FALSE
    /\ pc = "init"
    /\ result = "pending"
    /\ launchLog = <<>>
    /\ observed = FALSE

\* Lines 628-636: the options are checked before anything else.
Validate ==
    /\ pc = "init"
    /\ IF ValidOptions(batchSize, concurrency)
       THEN pc' = "next" /\ result' = result
       ELSE pc' = "done" /\ result' = "rejectedArgument"
    /\ UNCHANGED <<batchSize, concurrency, srcLen, pulled, batch, items, k,
                   inFlight, pstate, reactions, queue, racePending, allPending,
                   allRemaining, final>>
    /\ UNCHANGED <<launchLog, observed>>
    /\ UNCHANGED notProcVars

\* Lines 658-665: one turn of the for-await loop: a record arrives, is pushed,
\* and runBatch is entered when the batch is full.
Pull ==
    /\ pc = "next"
    /\ pulled < srcLen
    /\ pulled' = pulled + 1
    /\ batch' = Append(batch, pulled + 1)
    /\ IF BatchFull(Len(batch'), batchSize)
       THEN /\ pc' = "launch"
            /\ items' = batch'
            /\ k' = 1
            /\ inFlight' = <<>>
       ELSE UNCHANGED <<pc, items, k, inFlight>>
    /\ UNCHANGED <<batchSize, concurrency, srcLen, pstate, reactions, queue,
                   racePending, allPending, allRemaining, final, result>>
    /\ UNCHANGED <<launchLog, observed>>
    /\ UNCHANGED notProcVars

PartialBatchDropped(len) == FALSE

\* Line 667: batch.length > 0.
PartialBatchRuns(len) == len > 0

\* Lines 667-669: the reader is exhausted; a partial batch is run, else the
\* function returns.
SourceEnd ==
    /\ pc = "next"
    /\ pulled = srcLen
    /\ IF PartialBatchRuns(Len(batch))
       THEN /\ pc' = "launch"
            /\ items' = batch
            /\ k' = 1
            /\ inFlight' = <<>>
            /\ final' = TRUE
            /\ result' = result
       ELSE /\ pc' = "done"
            /\ result' = "resolved"
            /\ UNCHANGED <<items, k, inFlight, final>>
    /\ UNCHANGED <<batchSize, concurrency, srcLen, pulled, batch, pstate,
                   reactions, queue, racePending, allPending, allRemaining>>
    /\ UNCHANGED <<launchLog, observed>>
    /\ UNCHANGED notProcVars

\* Lines 643-652: one iteration of the launch loop, up to its await.
LaunchItem ==
    /\ pc = "launch"
    /\ k <= Len(items)
    /\ LET i == ItemAt(items, k)
           st1 == [pstate EXCEPT ![i] = "scheduled"]
           fl1 == Append(inFlight, i)
           rs1 == [reactions EXCEPT ![i] = <<Reaction("finally", 0)>>]
           q1 == Append(queue, Job("call", i, 0, TRUE))
       IN  /\ pstate' = st1
           /\ inFlight' = fl1
           /\ k' = k + 1
           /\ IF AdmissionFull(Len(fl1), concurrency)
              THEN /\ reactions' = RegisterOn(RaceMembers(fl1), st1, rs1, "race", i)
                   /\ queue' = q1 \o JobsForSettled(RaceMembers(fl1), st1, "race", i)
                   /\ racePending' = i
                   /\ pc' = "awaitRace"
              ELSE /\ reactions' = rs1
                   /\ queue' = q1
                   /\ UNCHANGED <<racePending, pc>>
    /\ UNCHANGED <<batchSize, concurrency, srcLen, pulled, batch, items,
                   allPending, allRemaining, final, result>>
    /\ UNCHANGED <<launchLog, observed>>
    /\ UNCHANGED notProcVars

\* Line 655: the loop is over; Promise.all over what is left in inFlight.
AwaitAll ==
    /\ pc = "launch"
    /\ k > Len(items)
    /\ LET ms == AllMembers(inFlight)
       IN  /\ reactions' = RegisterOn(ms, pstate, reactions, "all", 0)
           /\ IF Len(ms) = 0
              THEN /\ queue' = Append(queue, Job("resumeAll", 0, 0, TRUE))
                   /\ allPending' = FALSE
              ELSE /\ queue' = queue \o JobsForSettled(ms, pstate, "all", 0)
                   /\ allPending' = TRUE
           /\ allRemaining' = Len(ms)
    /\ pc' = "awaitAll"
    /\ UNCHANGED <<batchSize, concurrency, srcLen, pulled, batch, items, k,
                   inFlight, pstate, racePending, final, result>>
    /\ UNCHANGED <<launchLog, observed>>
    /\ UNCHANGED notProcVars

\* No job runs while runBatch is executing synchronously.
JobReady(kind) == pc # "launch" /\ queue # <<>> /\ Head(queue).k = kind

\* Line 644: the job of Promise.resolve().then(() => handler(item)).
CallHandler ==
    /\ JobReady("call")
    /\ pstate' = [pstate EXCEPT ![Head(queue).i] = "running"]
    /\ launchLog' = Append(launchLog, Head(queue).i)
    /\ queue' = Tail(queue)
    /\ UNCHANGED <<batchSize, concurrency, srcLen, pulled, batch, items, k,
                   inFlight, reactions, racePending, allPending, allRemaining,
                   final, pc, result>>
    /\ UNCHANGED observed
    /\ UNCHANGED notProcVars

\* The handler of record i returns, throws, or its promise settles.
HandlerSettles(i, ok) ==
    /\ pc # "launch"
    /\ pstate[i] = "running"
    /\ pstate' = [pstate EXCEPT ![i] = IF ok THEN "fulfilled" ELSE "rejected"]
    /\ queue' = queue \o JobsOnSettle(i, reactions[i], ok)
    /\ reactions' = [reactions EXCEPT ![i] = <<>>]
    /\ UNCHANGED <<batchSize, concurrency, srcLen, pulled, batch, items, k,
                   inFlight, racePending, allPending, allRemaining, final, pc,
                   result>>
    /\ UNCHANGED <<launchLog, observed>>
    /\ UNCHANGED notProcVars

\* Lines 646-648: the finally callback.
FinallyDelete ==
    /\ JobReady("finally")
    /\ inFlight' = RemoveFromSeq(inFlight, Head(queue).i)
    /\ queue' = Tail(queue)
    /\ UNCHANGED <<batchSize, concurrency, srcLen, pulled, batch, items, k,
                   pstate, reactions, racePending, allPending, allRemaining,
                   final, pc, result>>
    /\ UNCHANGED <<launchLog, observed>>
    /\ UNCHANGED notProcVars

\* Promise.race settles like its first member to settle; later ones are ignored.
RaceReaction ==
    /\ JobReady("race")
    /\ IF racePending = Head(queue).id
       THEN /\ racePending' = 0
            /\ queue' = Append(Tail(queue), Job("resumeRace", 0, 0, Head(queue).ok))
       ELSE /\ queue' = Tail(queue)
            /\ UNCHANGED racePending
    /\ UNCHANGED <<batchSize, concurrency, srcLen, pulled, batch, items, k,
                   inFlight, pstate, reactions, allPending, allRemaining, final,
                   pc, result>>
    /\ UNCHANGED <<launchLog, observed>>
    /\ UNCHANGED notProcVars

\* Promise.all rejects with its first member to reject, resolves with the last
\* member to fulfil.
AllReaction ==
    /\ JobReady("all")
    /\ IF ~allPending
       THEN /\ queue' = Tail(queue)
            /\ UNCHANGED <<allPending, allRemaining>>
       ELSE IF ~Head(queue).ok
       THEN /\ queue' = Append(Tail(queue), Job("resumeAll", 0, 0, FALSE))
            /\ allPending' = FALSE
            /\ UNCHANGED allRemaining
       ELSE /\ allRemaining' = allRemaining - 1
            /\ allPending' = (allRemaining - 1 > 0)
            /\ queue' = IF allRemaining - 1 > 0
                        THEN Tail(queue)
                        ELSE Append(Tail(queue), Job("resumeAll", 0, 0, TRUE))
    /\ UNCHANGED <<batchSize, concurrency, srcLen, pulled, batch, items, k,
                   inFlight, pstate, reactions, racePending, final, pc, result>>
    /\ UNCHANGED <<launchLog, observed>>
    /\ UNCHANGED notProcVars

\* Line 651: runBatch resumes after its await of Promise.race.
ResumeAfterRace ==
    /\ JobReady("resumeRace")
    /\ pc = "awaitRace"
    /\ IF Head(queue).ok
       THEN /\ pc' = "launch"
            /\ queue' = Tail(queue)
       ELSE /\ pc' = "awaitBatch"
            /\ queue' = Append(Tail(queue), Job("batchSettled", 0, 0, FALSE))
    /\ UNCHANGED <<batchSize, concurrency, srcLen, pulled, batch, items, k,
                   inFlight, pstate, reactions, racePending, allPending,
                   allRemaining, final, result>>
    /\ observed' = (observed \/ ~Head(queue).ok)
    /\ UNCHANGED launchLog
    /\ UNCHANGED notProcVars

\* Line 655: runBatch resumes after its await of Promise.all and settles.
ResumeAfterAll ==
    /\ JobReady("resumeAll")
    /\ pc = "awaitAll"
    /\ pc' = "awaitBatch"
    /\ queue' = Append(Tail(queue), Job("batchSettled", 0, 0, Head(queue).ok))
    /\ UNCHANGED <<batchSize, concurrency, srcLen, pulled, batch, items, k,
                   inFlight, pstate, reactions, racePending, allPending,
                   allRemaining, final, result>>
    /\ observed' = (observed \/ ~Head(queue).ok)
    /\ UNCHANGED launchLog
    /\ UNCHANGED notProcVars

\* Lines 662-663 and 668: processXlsxLarge resumes after await runBatch(batch).
BatchSettled ==
    /\ JobReady("batchSettled")
    /\ pc = "awaitBatch"
    /\ queue' = Tail(queue)
    /\ IF AwaitThrows(Head(queue).ok)
       THEN /\ pc' = "done"
            /\ result' = "rejectedHandler"
            /\ UNCHANGED batch
       ELSE IF final
       THEN /\ pc' = "done"
            /\ result' = "resolved"
            /\ UNCHANGED batch
       ELSE /\ pc' = "next"
            /\ batch' = <<>>
            /\ UNCHANGED result
    /\ UNCHANGED <<batchSize, concurrency, srcLen, pulled, items, k, inFlight,
                   pstate, reactions, racePending, allPending, allRemaining,
                   final>>
    /\ UNCHANGED <<launchLog, observed>>
    /\ UNCHANGED notProcVars

ProcNext ==
    \/ Validate
    \/ Pull
    \/ SourceEnd
    \/ LaunchItem
    \/ AwaitAll
    \/ CallHandler
    \/ \E i \in Rows, ok \in BOOLEAN : HandlerSettles(i, ok)
    \/ FinallyDelete
    \/ RaceReaction
    \/ AllReaction
    \/ ResumeAfterRace
    \/ ResumeAfterAll
    \/ BatchSettled

\* The state of the batch processor while another part of the program runs.
ProcIdle ==
    /\ batchSize = 1
    /\ concurrency = 1
    /\ srcLen = 0
    /\ pulled = 0
    /\ batch = <<>>
    /\ items = <<>>
    /\ k = 1
    /\ inFlight = <<>>
    /\ pstate = [i \in Rows |-> "none"]
    /\ reactions = [i \in Rows |-> <<>>]
    /\ queue = <<>>
    /\ racePending = 0
    /\ allPending = FALSE
    /\ allRemaining = 0
    /\ final = FALSE
    /\ pc = "idle"
    /\ result = "pending"
    /\ launchLog = <<>>
    /\ observed = FALSE

(***************************************************************************)
(* Time-zone conversion.  Time is counted in hours; a Date is the number   *)
(* of hours since the epoch.  A zone is what the time-zone database says   *)
(* of it: a standard offset, and a period [dstStart, dstEnd) in which the  *)
(* offset is shifted.                                                      *)
(***************************************************************************)
MaxInstant == 9
MaxOffset == 2
MaxShift == 2
MaxProcOffset == 1
HoursPerDay == 24

Instants == 0..MaxInstant
Zones == [std : (0 - MaxOffset)..MaxOffset, shift : 1..MaxShift,
          dstStart : Instants, dstEnd : Instants]
ProcOffsets == (0 - MaxProcOffset)..MaxProcOffset
NoParts == [day |-> 0, hour |-> 0]

\* The offset Intl.DateTimeFormat applies in zone z at UTC instant t.
ZoneOffset(z, t) ==
    IF z.dstStart <= t /\ t < z.dstEnd THEN z.std + z.shift ELSE z.std

\* date.getUTCFullYear() .. date.getUTCMilliseconds(): the UTC fields of a Date.
UtcFields(date) == [day |-> date \div HoursPerDay, hour |-> date % HoursPerDay]

\* Lines 160-170: Date.UTC of the fields.
toUtcMillis(p) == p.day * HoursPerDay + p.hour

\* Lines 123-158: the fields the formatter of zone z shows for a Date.
getTimeZoneParts(date, z) == UtcFields(date + ZoneOffset(z, date))

\* Lines 172-175.
getTimeZoneOffsetMs(date, z) == toUtcMillis(getTimeZoneParts(date, z)) - date

\* Lines 250-258: new Date(year, month - 1, day, ...) reads the fields as local
\* time of the running process.
LocalDate(p, proc) == toUtcMillis(p) - proc

\* Lines 245-259.
utcDateToExcelLocalDate(dateUtc, z, proc) ==
    LocalDate(getTimeZoneParts(dateUtc, z), proc)

LoopContinuesOnce(a) == a < 1

\* Line 184: attempt < 4.
LoopContinues(a) == a < 4

NextGuessFromGuess(local, g, offset) == g - offset

\* Line 186: const next = localAsUtc - offset.
NextGuess(local, g, offset) == local - offset

ZoneIdle ==
    /\ zone = [std |-> 0, shift |-> 1, dstStart |-> 0, dstEnd |-> 0]
    /\ procOffset = 0
    /\ mode = "idle"
    /\ instant = 0
    /\ parts = NoParts
    /\ naive = 0
    /\ localAsUtc = 0
    /\ guess = 0
    /\ attempt = 0
    /\ lookups = 0
    /\ converted = 0
    /\ zpc = "idle"

ZoneInit ==
    /\ zone \in {z \in Zones : z.dstStart <= z.dstEnd}
    /\ mode \in {"roundTrip", "wall", "write"}
    /\ procOffset \in IF mode = "write" THEN ProcOffsets ELSE {0}
    /\ instant \in Instants
    /\ parts = NoParts
    /\ naive = 0
    /\ localAsUtc = 0
    /\ guess = 0
    /\ attempt = 0
    /\ lookups = 0
    /\ converted = 0
    /\ zpc = "input"

\* Lines 123-158: an instant is shown as wall-clock fields of the zone.
ToZoneParts ==
    /\ zpc = "input"
    /\ mode = "roundTrip"
    /\ parts' = getTimeZoneParts(instant, zone)
    /\ zpc' = "parts"
    /\ UNCHANGED <<zone, procOffset, mode, instant, naive, localAsUtc, guess,
                   attempt, lookups, converted>>
    /\ UNCHANGED notZoneVars

\* A caller hands wall-clock fields of its own to localDateTimeInZoneToUtc.
WallInput ==
    /\ zpc = "input"
    /\ mode = "wall"
    /\ parts' = UtcFields(instant)
    /\ zpc' = "parts"
    /\ UNCHANGED <<zone, procOffset, mode, instant, naive, localAsUtc, guess,
                   attempt, lookups, converted>>
    /\ UNCHANGED notZoneVars

\* Lines 245-259: the write side makes the Date handed to the sink.
ToExcelLocal ==
    /\ zpc = "input"
    /\ mode = "write"
    /\ naive' = utcDateToExcelLocalDate(instant, zone, procOffset)
    /\ zpc' = "naive"
    /\ UNCHANGED <<zone, procOffset, mode, instant, parts, localAsUtc, guess,
                   attempt, lookups, converted>>
    /\ UNCHANGED notZoneVars

\* Lines 197-213 and 241-243: the read side takes the UTC fields of the Date.
Reinterpret ==
    /\ zpc = "naive"
    /\ parts' = UtcFields(naive)
    /\ zpc' = "parts"
    /\ UNCHANGED <<zone, procOffset, mode, instant, naive, localAsUtc, guess,
                   attempt, lookups, converted>>
    /\ UNCHANGED notZoneVars

\* Lines 181-182.
LocalToUtcEnter ==
    /\ zpc = "parts"
    /\ localAsUtc' = toUtcMillis(parts)
    /\ guess' = toUtcMillis(parts)
    /\ attempt' = 0
    /\ zpc' = "loop"
    /\ UNCHANGED <<zone, procOffset, mode, instant, parts, naive, lookups,
                   converted>>
    /\ UNCHANGED notZoneVars

\* Lines 184-192: one iteration of the loop.
LoopIteration ==
    /\ zpc = "loop"
    /\ LoopContinues(attempt)
    /\ lookups' = lookups + 1
    /\ LET offset == getTimeZoneOffsetMs(guess, zone)
           next == NextGuess(localAsUtc, guess, offset)
       IN  IF next = guess
           THEN /\ zpc' = "done"
                /\ converted' = guess
                /\ UNCHANGED <<guess, attempt>>
           ELSE /\ guess' = next
                /\ attempt' = attempt + 1
                /\ UNCHANGED <<zpc, converted>>
    /\ UNCHANGED <<zone, procOffset, mode, instant, parts, naive, localAsUtc>>
    /\ UNCHANGED notZoneVars

\* Lines 184 and 194: the loop ends after its last attempt.
LoopExhausted ==
    /\ zpc = "loop"
    /\ ~LoopContinues(attempt)
    /\ zpc' = "done"
    /\ converted' = guess
    /\ UNCHANGED <<zone, procOffset, mode, instant, parts, naive, localAsUtc,
                   guess, attempt, lookups>>
    /\ UNCHANGED notZoneVars

ZoneNext ==
    \/ ToZoneParts
    \/ WallInput
    \/ ToExcelLocal
    \/ Reinterpret
    \/ LocalToUtcEnter
    \/ LoopIteration
    \/ LoopExhausted

(***************************************************************************)
(* The writers: objectsToXlsx (index.ts) and objectsToXlsxStream, which    *)
(* adds the wait for the sink to drain.  The sink raises writableNeedDrain *)
(* when a write fills its buffer and lowers it when it emits 'drain'.      *)
(***************************************************************************)
MaxWriteRows == 3

\* Cell and field values.  A text is the sequence of its characters.
Null == [t |-> "null"]
Str(chars) == [t |-> "str", s |-> chars]
Num(number) == [t |-> "num", n |-> number]
Bool(b) == [t |-> "bool", b |-> b]
DateOf(date) == [t |-> "date", d |-> date]
Arr(elements) == [t |-> "arr", items |-> elements]

\* An object is the sequence of its own properties in the order Object.keys
\* and Object.entries list them.
Prop(key, value) == [key |-> key, value |-> value]

\* The timeZone option.
NoTimeZone == [set |-> FALSE]
TimeZone(z) == [set |-> TRUE, zone |-> z]

\* A timeZone text that names no zone Intl.DateTimeFormat knows.
UnknownTimeZone == [set |-> TRUE, unknown |-> TRUE]

\* Lines 94-100 and 108-117: new Intl.DateTimeFormat throws for such a text.
UnknownToIntl(timeZone) == "zone" \notin DOMAIN timeZone

TimeZoneNeverRejected(timeZone) == FALSE

\* Lines 474-476 and 567-569: if (timeZone) assertValidTimeZone(timeZone).
TimeZoneRejected(timeZone) == timeZone.set /\ UnknownToIntl(timeZone)

\* The columns option; width 0 stands for a column given without a width.
NoWidth == 0
ColumnSpec(header, key, width) == [header |-> header, key |-> key, width |-> width]
ColumnsOption(given, list) == [given |-> given, list |-> list]

\* The inputs the writer is run on.
WriteZone == [std |-> 1, shift |-> 1, dstStart |-> 0, dstEnd |-> 0]
WriteDate == 5
WriteRowChoices ==
    { <<>>,
      <<Prop(<<"a">>, Str(<<"x">>))>>,
      <<Prop(<<"a">>, DateOf(WriteDate)), Prop(<<"b">>, Num(1))>>,
      <<Prop(<<"b">>, DateOf(WriteDate)), Prop(<<"c">>, DateOf(WriteDate))>> }
WriteColumnsChoices ==
    { ColumnsOption(FALSE, <<>>),
      ColumnsOption(TRUE, <<>>),
      ColumnsOption(TRUE, <<ColumnSpec(<<"B">>, <<"b">>, 12),
                             ColumnSpec(<<"A">>, <<"a">>, NoWidth)>>) }
WriteTimeZoneChoices == {NoTimeZone, TimeZone(WriteZone)}
WriteDateColumnsChoices == {{}, {<<"b">>}}

StreamNeedsDrainNever(isWritable, nd) == FALSE

ListenersRegisteredLater(waits) == FALSE

\* README.md lines 313-333: waitForWritableDrain is entered by a plain call
\* and the executor of new Promise runs within it, so output.on('drain') and
\* output.on('error') (331-332) are made in the turn that read
\* writableNeedDrain.
ListenersRegistered(waits) == waits

\* README.md lines 751 and 766: writableOutput?.writableNeedDrain.
StreamNeedsDrain(isWritable, nd) == isWritable /\ nd

shouldConvertDateColumnAlways(columnName, dateColumnsSet) == TRUE

\* Lines 350-359.
shouldConvertDateColumn(columnName, dateColumnsSet) ==
    IF Cardinality(dateColumnsSet) = 0 THEN TRUE ELSE columnName \in dateColumnsSet

\* Lines 361-382: the row itself without a time zone, else a copy in which the
\* chosen Date-valued properties are replaced.
mapRowForExcelWrite(row, timeZone, dateColumnsSet, proc) ==
    IF ~timeZone.set THEN row
    ELSE [i \in DOMAIN row |->
            IF row[i].value.t = "date"
               /\ shouldConvertDateColumn(row[i].key, dateColumnsSet)
            THEN Prop(row[i].key,
                      DateOf(utcDateToExcelLocalDate(row[i].value.d,
                                                     timeZone.zone, proc)))
            ELSE row[i]]

\* Lines 372-377 with 102-117: converting a Date makes the formatter of the
\* zone, which throws when Intl does not know the zone.
mapRowThrows(row, timeZone, dateColumnsSet) ==
    /\ timeZone.set
    /\ UnknownToIntl(timeZone)
    /\ \E i \in DOMAIN row :
          /\ row[i].value.t = "date"
          /\ shouldConvertDateColumn(row[i].key, dateColumnsSet)

\* Line 370: const converted = { ...row } is a new object, and line 377 assigns
\* to it; the caller's row keeps its properties.
RowAfterMap(row, timeZone, dateColumnsSet, proc) == row

inferColumnsWithoutHeader(row) ==
    [i \in DOMAIN row |-> ColumnSpec(<<>>, row[i].key, NoWidth)]

\* Lines 384-391.
inferColumnsFromRow(row) ==
    [i \in DOMAIN row |-> ColumnSpec(row[i].key, row[i].key, NoWidth)]

explicitColumnsIgnored(cols) == FALSE

\* Line 575: columns && columns.length > 0.
explicitColumns(cols) == cols.given /\ Len(cols.list) > 0

\* Lines 574-579: the given columns, else null, else those of the first row.
resolvedColumns(cols, firstDone, firstValue) ==
    IF explicitColumns(cols) THEN [null |-> FALSE, list |-> cols.list]
    ELSE IF firstDone THEN [null |-> TRUE, list |-> <<>>]
    ELSE [null |-> FALSE, list |-> inferColumnsFromRow(firstValue)]

UnableOnlyWhenNull(resolved) == resolved.null

\* Line 581: !resolvedColumns || resolvedColumns.length === 0.
UnableToDetermineColumns(resolved) == resolved.null \/ Len(resolved.list) = 0

\* Lines 594-598: sheet.columns = resolvedColumns.map(...).
SheetColumnsOf(list) ==
    [i \in DOMAIN list |-> ColumnSpec(list[i].header, list[i].key, list[i].width)]

FirstRowAddedNever(firstDone) == FALSE

\* Line 600: the looked-ahead element is added when the sequence was not empty.
FirstRowAdded(firstDone) == ~firstDone

WriteIdle ==
    /\ variant = "idle"
    /\ outputIsWritable = FALSE
    /\ columns = ColumnsOption(FALSE, <<>>)
    /\ wTimeZone = NoTimeZone
    /\ dateColumns = {}
    /\ rowsLen = 0
    /\ wRows = <<>>
    /\ callerRows = <<>>
    /\ wPulled = 0
    /\ written = 0
    /\ sinkCreated = FALSE
    /\ sheetColumns = <<>>
    /\ sheetRows = <<>>
    /\ needDrain = FALSE
    /\ listening = FALSE
    /\ sinkErrored = FALSE
    /\ overfill = 0
    /\ wpc = "idle"
    /\ wresult = "pending"

WriteInit ==
    /\ variant \in {"plain", "stream"}
    /\ outputIsWritable \in BOOLEAN
    /\ columns \in WriteColumnsChoices
    /\ wTimeZone \in WriteTimeZoneChoices
    /\ dateColumns \in WriteDateColumnsChoices
    /\ rowsLen \in 0..MaxWriteRows
    /\ wRows = <<>>
    /\ callerRows = <<>>
    /\ wPulled = 0
    /\ written = 0
    /\ sinkCreated = FALSE
    /\ sheetColumns = <<>>
    /\ sheetRows = <<>>
    /\ needDrain = FALSE
    /\ listening = FALSE
    /\ sinkErrored = FALSE
    /\ overfill = 0
    /\ wpc = "start"
    /\ wresult = "pending"

\* Lines 567-572 (README.md 714-716, where the time zone is not looked at):
\* the time zone is checked, the iterator is made and its first element is
\* asked for.
WriteStart ==
    /\ wpc = "start"
    /\ IF variant = "plain" /\ TimeZoneRejected(wTimeZone)
       THEN wpc' = "done" /\ wresult' = "rejectedTimeZone"
       ELSE wpc' = "awaitFirst" /\ UNCHANGED wresult
    /\ UNCHANGED <<variant, outputIsWritable, columns, wTimeZone, dateColumns,
                   rowsLen, wRows, callerRows, wPulled, written, sinkCreated,
                   sheetColumns, sheetRows, needDrain, listening, sinkErrored,
                   overfill>>
    /\ UNCHANGED notWriteVars

\* Lines 574-606 (README.md 718-754): the first result arrives; the columns are
\* resolved, the workbook writer and the sheet are made and the first row is
\* written; the stream variant then looks at the sink.
FirstRowArrives(full, row) ==
    /\ wpc = "awaitFirst"
    /\ LET firstDone == (rowsLen = 0)
           resolved == resolvedColumns(columns, firstDone, row)
           nd == IF firstDone THEN needDrain
                 ELSE needDrain \/ (outputIsWritable /\ full)
       IN  /\ wPulled' = IF firstDone THEN 0 ELSE 1
           /\ wRows' = IF firstDone THEN wRows ELSE Append(wRows, row)
           /\ IF UnableToDetermineColumns(resolved)
              THEN /\ wpc' = "done"
                   /\ wresult' = "rejectedColumns"
                   /\ callerRows' = IF firstDone THEN callerRows
                                    ELSE Append(callerRows, row)
                   /\ UNCHANGED <<written, sinkCreated, sheetColumns, sheetRows,
                                  needDrain, listening, overfill>>
              ELSE IF ~firstDone /\ mapRowThrows(row, wTimeZone, dateColumns)
              THEN /\ sinkCreated' = TRUE
                   /\ sheetColumns' = SheetColumnsOf(resolved.list)
                   /\ wpc' = "done"
                   /\ wresult' = "rejectedTimeZone"
                   /\ callerRows' = Append(callerRows, row)
                   /\ UNCHANGED <<written, sheetRows, needDrain, listening,
                                  overfill>>
              ELSE /\ sinkCreated' = TRUE
                   /\ sheetColumns' = SheetColumnsOf(resolved.list)
                   /\ sheetRows' =
                        IF ~FirstRowAdded(firstDone) THEN sheetRows
                        ELSE Append(sheetRows,
                                    mapRowForExcelWrite(row, wTimeZone,
                                                        dateColumns, procOffset))
                   /\ callerRows' =
                        IF firstDone THEN callerRows
                        ELSE Append(callerRows,
                                    RowAfterMap(row, wTimeZone, dateColumns,
                                                procOffset))
                   /\ written' = IF firstDone THEN 0 ELSE 1
                   /\ needDrain' = nd
                   /\ overfill' = IF ~firstDone /\ needDrain
                                  THEN overfill + 1 ELSE overfill
                   /\ IF ~firstDone /\ variant = "stream"
                         /\ StreamNeedsDrain(outputIsWritable, nd)
                      THEN listening' = ListenersRegistered(TRUE) /\ wpc' = "waitDrain"
                      ELSE listening' = listening /\ wpc' = "awaitNext"
                   /\ UNCHANGED wresult
    /\ UNCHANGED <<variant, outputIsWritable, columns, wTimeZone, dateColumns,
                   rowsLen, sinkErrored>>
    /\ UNCHANGED notWriteVars

\* Lines 608-617 (README.md 756-769): one turn of the loop with a row.
NextRowArrives(full, row) ==
    /\ wpc = "awaitNext"
    /\ wPulled < rowsLen
    /\ wPulled' = wPulled + 1
    /\ wRows' = Append(wRows, row)
    /\ IF mapRowThrows(row, wTimeZone, dateColumns)
       THEN /\ wpc' = "done"
            /\ wresult' = "rejectedTimeZone"
            /\ callerRows' = Append(callerRows, row)
            /\ UNCHANGED <<sheetRows, written, needDrain, overfill, listening>>
       ELSE LET nd == needDrain \/ (outputIsWritable /\ full)
            IN  /\ sheetRows' = Append(sheetRows,
                                       mapRowForExcelWrite(row, wTimeZone,
                                                           dateColumns,
                                                           procOffset))
                /\ callerRows' = Append(callerRows,
                                        RowAfterMap(row, wTimeZone, dateColumns,
                                                    procOffset))
                /\ written' = written + 1
                /\ needDrain' = nd
                /\ overfill' = IF needDrain THEN overfill + 1 ELSE overfill
                /\ IF variant = "stream"
                      /\ StreamNeedsDrain(outputIsWritable, nd)
                   THEN listening' = ListenersRegistered(TRUE) /\ wpc' = "waitDrain"
                   ELSE listening' = listening /\ wpc' = "awaitNext"
                /\ UNCHANGED wresult
    /\ UNCHANGED <<variant, outputIsWritable, columns, wTimeZone, dateColumns,
                   rowsLen, sinkCreated, sheetColumns, sinkErrored>>
    /\ UNCHANGED notWriteVars

\* Lines 610-612 and 619-620: the sequence is over; the sheet and the workbook
\* are committed.
RowsExhausted ==
    /\ wpc = "awaitNext"
    /\ wPulled = rowsLen
    /\ wpc' = "commit"
    /\ UNCHANGED <<variant, outputIsWritable, columns, wTimeZone, dateColumns,
                   rowsLen, wRows, callerRows, wPulled, written, sinkCreated,
                   sheetColumns, sheetRows, needDrain, listening, sinkErrored,
                   overfill, wresult>>
    /\ UNCHANGED notWriteVars

\* Line 620: await workbook.commit() returns.
WorkbookCommitted ==
    /\ wpc = "commit"
    /\ wpc' = "done"
    /\ wresult' = "resolved"
    /\ UNCHANGED <<variant, outputIsWritable, columns, wTimeZone, dateColumns,
                   rowsLen, wRows, callerRows, wPulled, written, sinkCreated,
                   sheetColumns, sheetRows, needDrain, listening, sinkErrored,
                   overfill>>
    /\ UNCHANGED notWriteVars

\* The sink emits 'drain'.  README.md lines 315-318: onDrain removes the
\* listeners and resolves, and the writer goes on to the next element.
SinkDrains ==
    /\ needDrain
    /\ ~sinkErrored
    /\ needDrain' = FALSE
    /\ overfill' = 0
    /\ IF listening
       THEN listening' = FALSE /\ wpc' = "awaitNext"
       ELSE UNCHANGED <<listening, wpc>>
    /\ UNCHANGED <<variant, outputIsWritable, columns, wTimeZone, dateColumns,
                   rowsLen, wRows, callerRows, wPulled, written, sinkCreated,
                   sheetColumns, sheetRows, sinkErrored, wresult>>
    /\ UNCHANGED notWriteVars

\* The sink emits 'error'.  README.md lines 320-323: onError removes the
\* listeners and rejects, which ends the writer.
SinkErrors ==
    /\ sinkCreated
    /\ outputIsWritable
    /\ ~sinkErrored
    /\ sinkErrored' = TRUE
    /\ IF listening
       THEN listening' = FALSE /\ wpc' = "done" /\ wresult' = "rejectedSink"
       ELSE UNCHANGED <<listening, wpc, wresult>>
    /\ UNCHANGED <<variant, outputIsWritable, columns, wTimeZone, dateColumns,
                   rowsLen, wRows, callerRows, wPulled, written, sinkCreated,
                   sheetColumns, sheetRows, needDrain, overfill>>
    /\ UNCHANGED notWriteVars

WriteNext ==
    \/ WriteStart
    \/ \E full \in BOOLEAN, row \in WriteRowChoices : FirstRowArrives(full, row)
    \/ \E full \in BOOLEAN, row \in WriteRowChoices : NextRowArrives(full, row)
    \/ RowsExhausted
    \/ WorkbookCommitted
    \/ SinkDrains
    \/ SinkErrors

(***************************************************************************)
(* Texts.  The characters are letters, the space (the one whitespace       *)
(* character) and the delimiters.                                          *)
(***************************************************************************)
IsSpace(c) == c = " "

RECURSIVE TrimStart(_)
TrimStart(text) ==
    IF text # <<>> /\ IsSpace(Head(text)) THEN TrimStart(Tail(text)) ELSE text

RECURSIVE TrimEnd(_)
TrimEnd(text) ==
    IF text # <<>> /\ IsSpace(text[Len(text)])
    THEN TrimEnd(SubSeq(text, 1, Len(text) - 1)) ELSE text

\* String.prototype.trim.
Trim(text) == TrimEnd(TrimStart(text))

\* String.prototype.split with a separator of one character.
RECURSIVE Split(_, _)
Split(text, separator) ==
    IF \A i \in 1..Len(text) : text[i] # separator THEN <<text>>
    ELSE LET at == CHOOSE i \in 1..Len(text) :
                      /\ text[i] = separator
                      /\ \A j \in 1..(i - 1) : text[j] # separator
         IN  <<SubSeq(text, 1, at - 1)>>
                 \o Split(SubSeq(text, at + 1, Len(text)), separator)

(***************************************************************************)
(* The conversion of a cell value to an array.                             *)
(***************************************************************************)
SplitThenRemoveThenTrim(value, shouldConvert, delimiter, trimItems, removeEmpty) ==
    IF ~shouldConvert THEN value
    ELSE IF value.t = "null" \/ value = Str(<<>>) THEN Arr(<<>>)
    ELSE IF value.t = "arr" THEN value
    ELSE IF value.t # "str" THEN Arr(<<value>>)
    ELSE LET pieces == Split(value.s, delimiter)
             kept == IF removeEmpty
                     THEN SelectSeq(pieces, LAMBDA item : Len(item) > 0)
                     ELSE pieces
             trimmed == IF trimItems
                        THEN [i \in DOMAIN kept |-> Trim(kept[i])]
                        ELSE kept
         IN  Arr([i \in DOMAIN trimmed |-> Str(trimmed[i])])

\* Lines 314-348.
maybeConvertToArray(value, shouldConvert, delimiter, trimItems, removeEmpty) ==
    IF ~shouldConvert THEN value
    ELSE IF value.t = "null" \/ value = Str(<<>>) THEN Arr(<<>>)
    ELSE IF value.t = "arr" THEN value
    ELSE IF value.t # "str" THEN Arr(<<value>>)
    ELSE LET pieces == Split(value.s, delimiter)
             trimmed == IF trimItems
                        THEN [i \in DOMAIN pieces |-> Trim(pieces[i])]
                        ELSE pieces
             kept == IF removeEmpty
                     THEN SelectSeq(trimmed, LAMBDA item : Len(item) > 0)
                     ELSE trimmed
         IN  Arr([i \in DOMAIN kept |-> Str(kept[i])])

\* The values, columns and options the conversion is run on.
ArrayExample == <<"a", ",", " ", "b", " ", ",", ",", "c">>
ArrayValueChoices ==
    { Null, Str(<<>>), Str(ArrayExample), Str(<<" ">>), Str(<<"a">>),
      Str(<<",">>), Str(<<" ", "a", ";", " ">>), Str(<<"a", ";", ";", "b", ",">>),
      Num(1), Bool(TRUE), DateOf(WriteDate),
      Arr(<<>>), Arr(<<Str(<<" ", "a">>), Str(<<>>)>>) }
ArrayOptionChoices ==
    [arrayColumns : {{}, {<<"b">>}}, arrayDelimiter : {",", ";"},
     trimArrayItems : BOOLEAN, removeEmptyArrayItems : BOOLEAN]
NoOptions == [arrayColumns |-> {}, arrayDelimiter |-> ",",
              trimArrayItems |-> TRUE, removeEmptyArrayItems |-> TRUE]

CellIdle ==
    /\ cValue = Null
    /\ cColumn = <<>>
    /\ cOpts = NoOptions
    /\ cOut = Null
    /\ cpc = "idle"

CellInit ==
    /\ cValue \in ArrayValueChoices
    /\ cColumn \in {<<"a">>, <<"b">>}
    /\ cOpts \in ArrayOptionChoices
    /\ cOut = Null
    /\ cpc = "input"

\* Lines 538-544: the call xlsxToObjects makes for the cell of a column.
ConvertCell ==
    /\ cpc = "input"
    /\ cOut' = maybeConvertToArray(cValue, cColumn \in cOpts.arrayColumns,
                                   cOpts.arrayDelimiter, cOpts.trimArrayItems,
                                   cOpts.removeEmptyArrayItems)
    /\ cpc' = "done"
    /\ UNCHANGED <<cValue, cColumn, cOpts>>
    /\ UNCHANGED notCellVars

CellNext == ConvertCell

(***************************************************************************)
(* xlsxToObjects.  The workbook reader hands over worksheets, and a        *)
(* worksheet hands over rows in increasing row number; a row is its number *)
(* and its cells from column 1 on, a cell without a value having the value *)
(* null.                                                                   *)
(***************************************************************************)
MaxSheets == 2
MaxRowNumber == 3

Formula(res) == [t |-> "formula", result |-> res]
RichText(parts0) == [t |-> "rich", richText |-> parts0]
Hyperlink(text) == [t |-> "link", text |-> text]

\* An index of an array at which there is no element.
Hole == [t |-> "hole"]

NoFormat == <<>>
Cell(value) == [value |-> value, numFmt |-> NoFormat]
FormattedCell(value, numFmt) == [value |-> value, numFmt |-> numFmt]
Row(number, cells) == [number |-> number, cells |-> cells]

\* row.getCell(col): the cell, or a new cell without a value.
getCell(cells, col) == IF col <= Len(cells) THEN cells[col] ELSE Cell(Null)

\* row.values of ExcelJS: a sparse array with an element at index col for
\* each cell that has a value, hence holes at index 0 and at the other cells.
RowValuesOf(cells) ==
    LET valued == {col \in 1..Len(cells) : cells[col].value # Null}
        last == IF valued = {} THEN 0
                ELSE CHOOSE col \in valued : \A other \in valued : other <= col
    IN  [index \in 0..last |->
            IF index \in valued THEN cells[index].value ELSE Hole]

\* Lines 219-226: values.slice(1) keeps the holes; here index 1 is the first
\* element of the slice.
getRowValues(cells) ==
    LET values == RowValuesOf(cells)
    IN  [i \in 1..(Cardinality(DOMAIN values) - 1) |-> values[i]]

isEmptyRowOnlyNull(values) ==
    \A i \in DOMAIN values : values[i] = Hole \/ values[i] = Null

\* Lines 215-217: every() does not visit holes.
isEmptyRow(values) ==
    \A i \in DOMAIN values :
        values[i] = Hole \/ values[i] = Null \/ values[i] = Str(<<>>)

DigitChars == <<"0", "1", "2", "3", "4", "5", "6", "7", "8", "9">>

\* `${value}` of a natural number.
RECURSIVE Decimal(_)
Decimal(number) ==
    IF number < 10 THEN <<DigitChars[number + 1]>>
    ELSE Decimal(number \div 10) \o <<DigitChars[(number % 10) + 1]>>

\* date.toISOString(): a text that names the instant.
IsoText(date) == <<"T">> \o Decimal(date)

RECURSIVE JoinTexts(_)
JoinTexts(texts) ==
    IF texts = <<>> THEN <<>> ELSE Head(texts) \o JoinTexts(Tail(texts))

\* Lines 403-446.
RECURSIVE headerValueToString(_)
headerValueToString(value) ==
    IF value.t = "null" THEN <<>>
    ELSE IF value.t = "str" THEN value.s
    ELSE IF value.t = "num" THEN Decimal(value.n)
    ELSE IF value.t = "bool"
         THEN (IF value.b THEN <<"t", "r", "u", "e">>
               ELSE <<"f", "a", "l", "s", "e">>)
    ELSE IF value.t = "date" THEN IsoText(value.d)
    ELSE IF value.t = "link" THEN value.text
    ELSE IF value.t = "rich" THEN JoinTexts(value.richText)
    ELSE IF value.t = "formula" THEN headerValueToString(value.result)
    ELSE <<>>

\* opts.normalizeHeader: the default, or a caller's function that gives the
\* header "a" the empty name.
normalizeHeader(name, header, index) ==
    IF name = "erase" /\ header = <<"a">> THEN <<>> ELSE header

\* Line 515: `column_${index + 1}` for the 0-based index; col = index + 1.
ColumnName(col) == <<"c", "o", "l", "u", "m", "n", "_">> \o Decimal(col)

HeaderNamed(header, col) == IF header = <<>> THEN ColumnName(col) ELSE header

\* Lines 507-516: map() does not visit holes and leaves them in its result.
HeadersOf(values, opts) ==
    [i \in DOMAIN values |->
        IF values[i] = Hole THEN Hole
        ELSE LET header == headerValueToString(values[i])
                 trimmed == IF opts.trimHeaders THEN Trim(header) ELSE header
             IN  Str(HeaderNamed(normalizeHeader(opts.normalizeHeader, trimmed,
                                                 i - 1), i))]

\* The property key an element of headers is used as: obj[undefined] is the
\* property "undefined".
PropertyKey(columnName) ==
    IF columnName = Hole THEN <<"u", "n", "d", "e", "f", "i", "n", "e", "d">>
    ELSE columnName.s

\* A property key that is an array index: the decimal text of a natural
\* number, without a leading zero.
IsArrayIndex(key) ==
    /\ key # <<>>
    /\ \A i \in 1..Len(key) : \E d \in 1..10 : key[i] = DigitChars[d]
    /\ Len(key) = 1 \/ key[1] # "0"

RECURSIVE IndexValue(_)
IndexValue(key) ==
    IF key = <<>> THEN 0
    ELSE IndexValue(SubSeq(key, 1, Len(key) - 1)) * 10
            + (CHOOSE d \in 1..10 : key[Len(key)] = DigitChars[d]) - 1

\* Line 538, obj[columnName] = value: an old property keeps its place and
\* takes the value; a new one comes last, but an array index comes before
\* the other keys, among the array indices in ascending order.
SetProp(obj, key, value) ==
    IF \E i \in 1..Len(obj) : obj[i].key = key
    THEN [i \in 1..Len(obj) |->
             IF obj[i].key = key THEN Prop(key, value) ELSE obj[i]]
    ELSE IF IsArrayIndex(key)
    THEN LET before == Cardinality({i \in 1..Len(obj) :
                           /\ IsArrayIndex(obj[i].key)
                           /\ IndexValue(obj[i].key) < IndexValue(key)})
         IN  SubSeq(obj, 1, before) \o <<Prop(key, value)>>
                \o SubSeq(obj, before + 1, Len(obj))
    ELSE Append(obj, Prop(key, value))

\* A number that is NaN or an infinity.
NaN == [t |-> "num", nan |-> TRUE]
IsFiniteNumber(value) == "n" \in DOMAIN value

\* A Date whose time value is NaN, and the completion of a call that throws.
InvalidDate == [t |-> "date", invalid |-> TRUE]
Thrown == [t |-> "thrown"]

\* Lines 88-92: assertValidDate passes a Date whose time is not NaN.
IsValidDate(date) == "d" \in DOMAIN date

\* Line 236: the two epochs, in days from 1899-12-30, which is day 25569
\* before 1970-01-01; line 238: new Date(time) is invalid when time is not
\* finite or is more than 100,000,000 days away from 1970-01-01.
EpochDays1904 == 1462
UnixEpochDay == 25569
MaxTimeDays == 100000000
SerialDay(serial, date1904) == (IF date1904 THEN EpochDays1904 ELSE 0) + serial
TimeClipped(day) ==
    day - UnixEpochDay > MaxTimeDays \/ UnixEpochDay - day > MaxTimeDays

EpochAlways1900(serial, date1904) == serial * HoursPerDay

\* Lines 236-238: epoch + serial * msPerDay, in hours from 1899-12-30.
SerialTime(serial, date1904) == SerialDay(serial, date1904) * HoursPerDay

\* Lines 235-239.
excelSerialToDate(value, date1904) ==
    IF IsFiniteNumber(value) /\ ~TimeClipped(SerialDay(value.n, date1904))
    THEN DateOf(SerialTime(value.n, date1904))
    ELSE InvalidDate

\* Lines 177-195 as a function: the loop from a guess and an attempt on.
RECURSIVE LoopFrom(_, _, _, _)
LoopFrom(local, g, a, z) ==
    IF ~LoopContinues(a) THEN g
    ELSE LET next == NextGuess(local, g, getTimeZoneOffsetMs(g, z))
         IN  IF next = g THEN g ELSE LoopFrom(local, next, a + 1, z)

localDateTimeInZoneToUtc(p, z) == LoopFrom(toUtcMillis(p), toUtcMillis(p), 0, z)

\* Lines 197-213 and 241-243.
reinterpretDateToTimeZone(date, z) == localDateTimeInZoneToUtc(UtcFields(date), z)

\* Lines 284-285: cell.numFmt is a string and /[dmyhs]/i.test(cell.numFmt).
IsDateFormat(numFmt) ==
    \E i \in 1..Len(numFmt) :
        numFmt[i] \in {"d", "m", "y", "h", "s", "D", "M", "Y", "H", "S"}

\* Lines 261-292.
normalizeCellValue(cell, parseDates, date1904, timeZone) ==
    IF cell.value.t = "null" THEN Null
    ELSE IF cell.value.t = "date"
         THEN (IF timeZone.set
               THEN DateOf(reinterpretDateToTimeZone(cell.value.d, timeZone.zone))
               ELSE cell.value)
    ELSE IF cell.value.t = "formula" THEN cell.value.result
    ELSE IF parseDates /\ cell.value.t = "num" /\ IsDateFormat(cell.numFmt)
         THEN LET date == excelSerialToDate(cell.value, date1904)
              IN  IF ~timeZone.set THEN date
                  ELSE IF ~IsValidDate(date) THEN Thrown
                  ELSE DateOf(reinterpretDateToTimeZone(date.d, timeZone.zone))
    ELSE cell.value

\* Lines 273-275 and 287-288 with 197-199: reinterpreting a date in a zone
\* asserts that Intl knows the zone.
normalizeCellValueThrows(cell, parseDates, date1904, timeZone) ==
    /\ timeZone.set
    /\ \/ /\ UnknownToIntl(timeZone)
          /\ \/ cell.value.t = "date"
             \/ parseDates /\ cell.value.t = "num" /\ IsDateFormat(cell.numFmt)
       \/ /\ parseDates /\ cell.value.t = "num" /\ IsDateFormat(cell.numFmt)
          /\ ~IsValidDate(excelSerialToDate(cell.value, date1904))

\* The cells and options normalizeCellValue is run on.
GeneralFormat == <<"G", "e", "n", "e", "r", "a", "l">>
DstZone == [std |-> 1, shift |-> 1, dstStart |-> 40, dstEnd |-> 60]
OutOfRangeSerial == 2 * MaxTimeDays
NormalizeValueChoices ==
    { Null, Str(<<"a">>), Bool(TRUE), Num(0), Num(2), Num(OutOfRangeSerial), NaN,
      DateOf(WriteDate), Formula(Null), Formula(Str(<<"a">>)), Formula(Num(2)),
      Formula(DateOf(WriteDate)) }
NormalizeFormatChoices ==
    { NoFormat, GeneralFormat, <<"d", "d", "/", "m", "m">>, <<"H", ":", "M", "M">> }
NormalizeOptionChoices ==
    [parseDates : BOOLEAN, date1904 : BOOLEAN,
     timeZone : {NoTimeZone, TimeZone(WriteZone), TimeZone(DstZone)}]

NormalizeInit ==
    /\ cValue \in { FormattedCell(value, numFmt) :
                       value \in NormalizeValueChoices,
                       numFmt \in NormalizeFormatChoices }
    /\ cColumn = <<>>
    /\ cOpts \in NormalizeOptionChoices
    /\ cOut = Null
    /\ cpc = "input"

\* Lines 527-532: the call xlsxToObjects makes for a cell.
NormalizeCell ==
    /\ cpc = "input"
    /\ cOut' = normalizeCellValue(cValue, cOpts.parseDates, cOpts.date1904,
                                  cOpts.timeZone)
    /\ cpc' = "done"
    /\ UNCHANGED <<cValue, cColumn, cOpts>>
    /\ UNCHANGED notCellVars

NormalizeNext == NormalizeCell

\* Lines 294-300.
maybeTrimTextValue(value, trimTextValues) ==
    IF ~trimTextValues \/ value.t # "str" THEN value ELSE Str(Trim(value.s))

\* Lines 302-312; has(undefined) is false.
shouldTrimColumn(trimTextValues, trimTextColumns, columnName) ==
    IF trimTextValues THEN TRUE
    ELSE columnName # Hole /\ columnName.s \in trimTextColumns

\* Lines 524-545: the record of a row, from column i on.
RECURSIVE RecordFrom(_, _, _, _, _)
RecordFrom(obj, i, names, cells, opts) ==
    IF i > Len(names) THEN obj
    ELSE LET columnName == names[i]
             normalizedValue ==
                 normalizeCellValue(getCell(cells, i), opts.parseDates,
                                    opts.date1904, opts.timeZone)
             trimmedValue ==
                 maybeTrimTextValue(normalizedValue,
                                    shouldTrimColumn(opts.trimTextValues,
                                                     opts.trimTextColumns,
                                                     columnName))
             converted0 ==
                 maybeConvertToArray(trimmedValue,
                                     columnName # Hole
                                        /\ columnName.s \in opts.arrayColumns,
                                     opts.arrayDelimiter, opts.trimArrayItems,
                                     opts.removeEmptyArrayItems)
         IN  RecordFrom(SetProp(obj, PropertyKey(columnName), converted0),
                        i + 1, names, cells, opts)

\* Lines 525-532: a throw of normalizeCellValue ends the generator.
RecordThrows(names, cells, opts) ==
    \E i \in 1..Len(names) :
        normalizeCellValueThrows(getCell(cells, i), opts.parseDates,
                                 opts.date1904, opts.timeZone)

SheetAlwaysMatches(name, sheetName) == TRUE

SheetMatchesNamedOnly(name, sheetName) ==
    sheetName.t = "str" /\ sheetName.s # <<>> /\ name = sheetName

\* Lines 490-495: no filter when sheetName is undefined or '', else the
\* worksheet's name has to be the same string.
SheetMatches(name, sheetName) ==
    IF sheetName.t = "str" /\ sheetName.s # <<>> THEN name = sheetName ELSE TRUE

\* Lines 452-472: the defaults of the options.
DefaultReadOptions ==
    [sheetName |-> Null, headerRowNumber |-> 1, trimHeaders |-> TRUE,
     trimTextValues |-> FALSE, trimTextColumns |-> {}, arrayColumns |-> {},
     arrayDelimiter |-> ",", trimArrayItems |-> TRUE,
     removeEmptyArrayItems |-> TRUE, skipEmptyRows |-> TRUE,
     parseDates |-> TRUE, date1904 |-> FALSE, timeZone |-> NoTimeZone,
     normalizeHeader |-> "identity"]

\* The options, worksheet names and rows the reader is run on.
FirstSheet == Str(<<"S", "1">>)
SecondSheet == Str(<<"S", "2">>)
ReadHeaderChoices ==
    { [trimHeaders |-> TRUE, normalizeHeader |-> "identity", arrayColumns |-> {}],
      [trimHeaders |-> FALSE, normalizeHeader |-> "identity", arrayColumns |-> {}],
      [trimHeaders |-> TRUE, normalizeHeader |-> "erase",
       arrayColumns |-> {<<"b">>}] }
ReadOptionChoices ==
    { [DefaultReadOptions EXCEPT !.sheetName = sn, !.headerRowNumber = hr,
                                 !.skipEmptyRows = se,
                                 !.trimHeaders = hc.trimHeaders,
                                 !.normalizeHeader = hc.normalizeHeader,
                                 !.arrayColumns = hc.arrayColumns] :
        sn \in {Null, FirstSheet}, hr \in {1, 2}, se \in BOOLEAN,
        hc \in ReadHeaderChoices }
SheetNameChoices == {FirstSheet, SecondSheet, Null}
ReadCellsChoices ==
    { <<>>,
      <<Cell(Str(<<>>)), Cell(Null)>>,
      <<Cell(Str(<<"a">>)), Cell(Null), Cell(Str(<<" ", "b">>))>>,
      <<Cell(Str(<<" ">>)), Cell(Num(1))>>,
      <<Cell(Formula(Str(<<"b">>))), Cell(Str(<<"x", ",", "y">>))>>,
      <<Cell(Null), Cell(Str(<<"a">>))>>,
      <<Cell(Str(<<"a">>)), Cell(Str(<<" ", "a">>)), Cell(Bool(TRUE))>> }

NoHeaders == [set |-> FALSE]
Headers(names) == [set |-> TRUE, names |-> names]
NoRow == Row(0, <<>>)

HeadersKept(previous) == previous

\* Line 497: let headers = null at the start of each worksheet.
HeadersAtSheetStart(previous) == NoHeaders

SkippedUnlessHeaderRow(skipEmptyRows, values, number, headerRowNumber) ==
    skipEmptyRows /\ isEmptyRow(values) /\ number # headerRowNumber

\* Lines 502-504: the empty-row test, made before the row's number is looked at.
SkippedAsEmpty(skipEmptyRows, values, number, headerRowNumber) ==
    skipEmptyRows /\ isEmptyRow(values)

IsHeaderRowOrLater(number, headerRowNumber) == number >= headerRowNumber

\* Line 506: row.number === headerRowNumber.
IsHeaderRow(number, headerRowNumber) == number = headerRowNumber

ReadIdle ==
    /\ rOpts = DefaultReadOptions
    /\ rpc = "idle"
    /\ sheetsSeen = 0
    /\ skipped = 0
    /\ curSheet = Null
    /\ headers = NoHeaders
    /\ headerValues = <<>>
    /\ lastRow = NoRow
    /\ lastOutcome = "none"
    /\ lastRecord = <<>>
    /\ emitCount = 0
    /\ headerRowSeen = NoRow
    /\ sheetEmits = 0

ReadInit ==
    /\ rOpts \in ReadOptionChoices
    /\ rpc = "start"
    /\ sheetsSeen = 0
    /\ skipped = 0
    /\ curSheet = Null
    /\ headers = NoHeaders
    /\ headerValues = <<>>
    /\ lastRow = NoRow
    /\ lastOutcome = "none"
    /\ lastRecord = <<>>
    /\ emitCount = 0
    /\ headerRowSeen = NoRow
    /\ sheetEmits = 0

\* Lines 474-487: the time zone is checked and the workbook reader is made.
ReadStart ==
    /\ rpc = "start"
    /\ rpc' = IF TimeZoneRejected(rOpts.timeZone) THEN "failed" ELSE "sheets"
    /\ UNCHANGED <<rOpts, sheetsSeen, skipped, curSheet, headers, headerValues,
                   lastRow, lastOutcome, lastRecord, emitCount, headerRowSeen,
                   sheetEmits>>
    /\ UNCHANGED notReadVars

\* Lines 489-497: the workbook hands over a worksheet; it is passed over when
\* the filter rejects it, else its rows are read with no headers yet.
NextWorksheet(name) ==
    /\ rpc = "sheets"
    /\ sheetsSeen < MaxSheets
    /\ sheetsSeen' = sheetsSeen + 1
    /\ IF SheetMatches(name, rOpts.sheetName)
       THEN /\ rpc' = "rows"
            /\ curSheet' = name
            /\ headers' = HeadersAtSheetStart(headers)
            /\ UNCHANGED skipped
       ELSE /\ skipped' = skipped + 1
            /\ UNCHANGED <<rpc, curSheet, headers>>
    /\ UNCHANGED <<rOpts, headerValues, lastRow, lastOutcome, lastRecord,
                   emitCount, headerRowSeen, sheetEmits>>
    /\ UNCHANGED notReadVars

\* Lines 499-548: the worksheet hands over a row, which is passed over as
\* empty, taken as the header row, passed over for want of headers, or
\* yielded as a record.
RowArrives(number, cells) ==
    /\ rpc = "rows"
    /\ number > lastRow.number
    /\ lastRow' = Row(number, cells)
    /\ headerRowSeen' = IF number = rOpts.headerRowNumber
                        THEN Row(number, cells) ELSE headerRowSeen
    /\ LET values == getRowValues(cells)
       IN  IF SkippedAsEmpty(rOpts.skipEmptyRows, values, number,
                             rOpts.headerRowNumber)
           THEN /\ lastOutcome' = "empty"
                /\ lastRecord' = <<>>
                /\ UNCHANGED <<headers, headerValues, emitCount, sheetEmits>>
           ELSE IF IsHeaderRow(number, rOpts.headerRowNumber)
           THEN /\ lastOutcome' = "header"
                /\ headers' = Headers(HeadersOf(values, rOpts))
                /\ headerValues' = values
                /\ lastRecord' = <<>>
                /\ UNCHANGED <<emitCount, sheetEmits>>
           ELSE IF ~headers.set
           THEN /\ lastOutcome' = "noHeaders"
                /\ lastRecord' = <<>>
                /\ UNCHANGED <<headers, headerValues, emitCount, sheetEmits>>
           ELSE IF RecordThrows(headers.names, cells, rOpts)
           THEN /\ lastOutcome' = "threw"
                /\ lastRecord' = <<>>
                /\ UNCHANGED <<headers, headerValues, emitCount, sheetEmits>>
           ELSE /\ lastOutcome' = "yielded"
                /\ lastRecord' = RecordFrom(<<>>, 1, headers.names, cells, rOpts)
                /\ emitCount' = emitCount + 1
                /\ sheetEmits' = sheetEmits + 1
                /\ UNCHANGED <<headers, headerValues>>
    /\ rpc' = IF lastOutcome' = "threw" THEN "failed" ELSE rpc
    /\ UNCHANGED <<rOpts, sheetsSeen, skipped, curSheet>>
    /\ UNCHANGED notReadVars

\* Line 499: the worksheet has no more rows; its iteration of the outer loop
\* ends, and with it what was noted of its rows.
WorksheetEnds ==
    /\ rpc = "rows"
    /\ rpc' = "sheets"
    /\ curSheet' = Null
    /\ headerValues' = <<>>
    /\ lastRow' = NoRow
    /\ lastOutcome' = "none"
    /\ lastRecord' = <<>>
    /\ headerRowSeen' = NoRow
    /\ sheetEmits' = 0
    /\ UNCHANGED <<rOpts, sheetsSeen, skipped, emitCount, headers>>
    /\ UNCHANGED notReadVars

\* Line 489: the workbook has no more worksheets; the generator returns.
WorkbookEnds ==
    /\ rpc = "sheets"
    /\ rpc' = "done"
    /\ UNCHANGED <<rOpts, sheetsSeen, skipped, curSheet, headers, headerValues,
                   lastRow, lastOutcome, lastRecord, emitCount, headerRowSeen,
                   sheetEmits>>
    /\ UNCHANGED notReadVars

ReadNext ==
    \/ ReadStart
    \/ \E name \in SheetNameChoices : NextWorksheet(name)
    \/ \E number \in 1..MaxRowNumber, cells \in ReadCellsChoices :
          RowArrives(number, cells)
    \/ WorksheetEnds
    \/ WorkbookEnds

(***************************************************************************)
(* Writing with objectsToXlsx and reading the written file back with       *)
(* xlsxToObjects under the default options.                                *)
(***************************************************************************)
\* Line 593: the sheet is added under sheetName, 'Sheet1' by default.
WrittenSheetName == Str(<<"S", "h", "e", "e", "t", "1">>)

\* Lines 594-598: ExcelJS puts the headers of sheet.columns in row 1.
HeaderRowCells(cols) == [j \in DOMAIN cols |-> Cell(Str(cols[j].header))]

\* Lines 601-605 and 614-616: sheet.addRow(object) of ExcelJS fills the cell
\* of each column whose key the object has.
AddedRowCells(cols, obj) ==
    [j \in DOMAIN cols |->
        IF \E i \in DOMAIN obj : obj[i].key = cols[j].key
        THEN Cell(obj[CHOOSE i \in DOMAIN obj : obj[i].key = cols[j].key].value)
        ELSE Cell(Null)]

\* The rows of the written sheet, by row number.
WrittenRows ==
    <<HeaderRowCells(sheetColumns)>>
        \o [n \in DOMAIN sheetRows |-> AddedRowCells(sheetColumns, sheetRows[n])]

\* The rows the round trip is run on: string, number and boolean values.
RoundTripRowChoices ==
    { <<Prop(<<"a">>, Str(<<"x">>)), Prop(<<"b">>, Num(1))>>,
      <<Prop(<<"b">>, Bool(TRUE)), Prop(<<"a">>, Str(<<" ", "y">>))>>,
      <<Prop(<<"a">>, Str(<<>>)), Prop(<<"b">>, Str(<<>>))>>,
      <<Prop(<<"b">>, Num(2))>>,
      <<Prop(<<"a">>, Str(<<"z">>)), Prop(<<"c">>, Num(3))>> }

RoundTripInit ==
    /\ WriteInit
    /\ variant = "plain"
    /\ outputIsWritable = FALSE
    /\ columns = ColumnsOption(FALSE, <<>>)
    /\ wTimeZone = NoTimeZone
    /\ dateColumns = {}

\* The caller opens the file the write has produced.
OpenWritten ==
    /\ wpc = "done"
    /\ wresult = "resolved"
    /\ rpc = "idle"
    /\ rpc' = "start"
    /\ UNCHANGED <<rOpts, sheetsSeen, skipped, curSheet, headers, headerValues,
                   lastRow, lastOutcome, lastRecord, emitCount, headerRowSeen,
                   sheetEmits>>
    /\ UNCHANGED notReadVars

\* The written workbook has one worksheet.
WrittenSheetArrives ==
    /\ sheetsSeen = 0
    /\ NextWorksheet(WrittenSheetName)

WrittenRowArrives ==
    /\ lastRow.number < Len(WrittenRows)
    /\ RowArrives(lastRow.number + 1, WrittenRows[lastRow.number + 1])

WrittenSheetEnds ==
    /\ lastRow.number = Len(WrittenRows)
    /\ WorksheetEnds

WrittenWorkbookEnds ==
    /\ sheetsSeen = 1
    /\ WorkbookEnds

RoundTripNext ==
    \/ WriteStart
    \/ \E row \in RoundTripRowChoices : FirstRowArrives(FALSE, row)
    \/ \E row \in RoundTripRowChoices : NextRowArrives(FALSE, row)
    \/ RowsExhausted
    \/ WorkbookCommitted
    \/ OpenWritten
    \/ ReadStart
    \/ WrittenSheetArrives
    \/ WrittenRowArrives
    \/ WrittenSheetEnds
    \/ WrittenWorkbookEnds

(***************************************************************************)
(* A caller that reads a workbook with xlsxToObjects and then writes one   *)
(* with objectsToXlsx or objectsToXlsxStream, under one timeZone option,   *)
(* which may name no zone.                                                 *)
(***************************************************************************)
CallerTimeZoneChoices == {NoTimeZone, TimeZone(WriteZone), UnknownTimeZone}
CallerReadOptions ==
    { [DefaultReadOptions EXCEPT !.timeZone = tz] : tz \in CallerTimeZoneChoices }
CallerCellsChoices ==
    { <<Cell(Str(<<"a">>)), Cell(Str(<<"b">>))>>,
      <<Cell(Str(<<"x">>)), Cell(DateOf(WriteDate))>>,
      <<Cell(Num(1)), Cell(Null)>> }
CallerRowChoices ==
    { <<Prop(<<"a">>, Str(<<"x">>))>>,
      <<Prop(<<"a">>, Num(1)), Prop(<<"b">>, DateOf(WriteDate))>> }

CallerInit ==
    /\ rOpts \in CallerReadOptions
    /\ rpc = "start"
    /\ sheetsSeen = 0
    /\ skipped = 0
    /\ curSheet = Null
    /\ headers = NoHeaders
    /\ headerValues = <<>>
    /\ lastRow = NoRow
    /\ lastOutcome = "none"
    /\ lastRecord = <<>>
    /\ emitCount = 0
    /\ headerRowSeen = NoRow
    /\ sheetEmits = 0

\* The read is over, by return or by throw, and the caller turns to writing.
CallWriter(kind, cols, len) ==
    /\ rpc \in {"done", "failed"}
    /\ wpc = "idle"
    /\ wpc' = "start"
    /\ variant' = kind
    /\ columns' = cols
    /\ rowsLen' = len
    /\ wTimeZone' = rOpts.timeZone
    /\ UNCHANGED <<outputIsWritable, dateColumns, wRows, callerRows, wPulled,
                   written, sinkCreated, sheetColumns, sheetRows, needDrain,
                   listening, sinkErrored, overfill, wresult>>
    /\ UNCHANGED notWriteVars

CallerNext ==
    \/ ReadStart
    \/ NextWorksheet(FirstSheet)
    \/ \E number \in 1..MaxRowNumber, cells \in CallerCellsChoices :
          RowArrives(number, cells)
    \/ WorksheetEnds
    \/ WorkbookEnds
    \/ \E kind \in {"plain", "stream"}, cols \in WriteColumnsChoices,
          len \in 0..MaxWriteRows : CallWriter(kind, cols, len)
    \/ WriteStart
    \/ \E row \in CallerRowChoices : FirstRowArrives(FALSE, row)
    \/ \E row \in CallerRowChoices : NextRowArrives(FALSE, row)
    \/ RowsExhausted
    \/ WorkbookCommitted

Init == ProcInit /\ ZoneIdle /\ WriteIdle /\ CellIdle /\ ReadIdle
Next == ProcNext
Spec == Init /\ [][Next]_vars

\* processXlsxLarge with a source that ends, handlers that complete and a job
\* queue that is run: a step that can be taken is taken.
FairSpec == Init /\ [][Next]_vars /\ WF_vars(Next)

ZoneSpecInit == ZoneInit /\ ProcIdle /\ WriteIdle /\ CellIdle /\ ReadIdle
ZoneSpec == ZoneSpecInit /\ [][ZoneNext]_vars

WriteSpecInit == WriteInit /\ ProcIdle /\ ZoneIdle /\ CellIdle /\ ReadIdle
WriteSpec == WriteSpecInit /\ [][WriteNext]_vars

\* The writer with a sink that goes on emitting: while 'drain' or 'error' can
\* be emitted, one of them is.
WriteFairSpec ==
    WriteSpecInit /\ [][WriteNext]_vars /\ WF_vars(SinkDrains \/ SinkErrors)

CellSpecInit == CellInit /\ ProcIdle /\ ZoneIdle /\ WriteIdle /\ ReadIdle
CellSpec == CellSpecInit /\ [][CellNext]_vars

ReadSpecInit == ReadInit /\ ProcIdle /\ ZoneIdle /\ WriteIdle /\ CellIdle
ReadSpec == ReadSpecInit /\ [][ReadNext]_vars

RoundTripSpecInit == RoundTripInit /\ ReadIdle /\ ProcIdle /\ ZoneIdle /\ CellIdle
RoundTripSpec == RoundTripSpecInit /\ [][RoundTripNext]_vars

NormalizeSpecInit == NormalizeInit /\ ProcIdle /\ ZoneIdle /\ WriteIdle /\ ReadIdle
NormalizeSpec == NormalizeSpecInit /\ [][NormalizeNext]_vars

CallerSpecInit == CallerInit /\ WriteIdle /\ ProcIdle /\ ZoneIdle /\ CellIdle
CallerSpec == CallerSpecInit /\ [][CallerNext]_vars

(***************************************************************************)
(* Claims about processXlsxLarge.                                          *)
(***************************************************************************)
Running == {i \in Rows : pstate[i] = "running"}
Outstanding == {i \in Rows : Pending(pstate[i])}
Failed == {i \in Rows : pstate[i] = "rejected"}
WindowOf(i) == IF batchSize >= 1 THEN (i - 1) \div batchSize ELSE 0

\* C1: with concurrency c >= 1, the handler invocations that have been started
\* and have not yet completed never number more than c, whatever the order in
\* which invocations complete.
C1_AdmissionBound ==
    concurrency >= 1 => Cardinality(Running) <= concurrency

\* The cap is reached while a record of the same window still waits for a slot.
C1_Witness ==
    /\ concurrency >= 2
    /\ Cardinality(Running) = concurrency
    /\ pc = "awaitRace"
    /\ k <= Len(items)

\* C2: once a handler invocation has failed, processXlsxLarge never resolves
\* successfully.
C2_FailureAlwaysRejects ==
    result = "resolved" => Failed = {}

\* C3: when processXlsxLarge rejects because of a handler failure, every
\* invocation started in that window has completed.
C3_RejectsAfterWindowCompletes ==
    result = "rejectedHandler" => Outstanding = {}

\* C4: with batchSize <= 0 or concurrency <= 0 the call fails with the
\* argument error, no record is pulled and the handler is never invoked.
C4_FailFast ==
    (batchSize <= 0 \/ concurrency <= 0) =>
        /\ pulled = 0
        /\ \A i \in Rows : pstate[i] = "none"
        /\ pc # "init" => result = "rejectedArgument"

\* A non-empty source, a bad concurrency alone, and the call has been rejected.
C4_Witness ==
    /\ batchSize >= 1
    /\ concurrency <= 0
    /\ srcLen >= 1
    /\ result = "rejectedArgument"

\* C5: no record of a later window is pulled (and so none of its handlers is
\* started) before every handler invocation of the earlier windows has completed.
C5_WindowBarrier ==
    \A i, j \in Rows :
        (WindowOf(i) < WindowOf(j) /\ (j <= pulled \/ pstate[j] # "none"))
            => Settled(pstate[i])

\* A second window is being launched after a first window of several records
\* that were in flight together.
C5_Witness ==
    /\ batchSize >= 2
    /\ concurrency >= 2
    /\ pulled > batchSize
    /\ pstate[pulled] = "running"

\* The records 1..n in source order.
FirstRecords(n) == [i \in 1..n |-> i]

\* C19: handlers are called once each, in the order the reader emitted the
\* records, within and across windows; a run that resolves without a handler
\* failure has called the handler of every record.
C19_LaunchOrder ==
    /\ launchLog = FirstRecords(Len(launchLog))
    /\ Len(launchLog) <= pulled
    /\ (result = "resolved" /\ Failed = {}) => launchLog = FirstRecords(srcLen)

\* Two windows have been launched, and a later record completed while an
\* earlier one of its window was still running.
C19_Witness ==
    /\ Len(launchLog) > batchSize
    /\ batchSize >= 2
    /\ \E i, j \in Rows : i < j /\ pstate[i] = "running" /\ Settled(pstate[j])

\* A rejection has reached an await of runBatch or the caller.
FailureObserved == observed \/ result = "rejectedHandler"

\* C20: once a handler failure has been observed, no further record is pulled
\* from the reader and no further handler invocation is made.
C20_FailureAbortsWindows ==
    [][FailureObserved =>
          /\ pulled' = pulled
          /\ \A i \in Rows : pstate[i] = "none" => pstate'[i] = "none"]_vars

\* The call has rejected with records of later windows left in the source.
C20_Witness ==
    /\ result = "rejectedHandler"
    /\ pulled < srcLen
    /\ pulled >= 1

(***************************************************************************)
(* Claims about the time-zone conversion.                                  *)
(***************************************************************************)
MaxAbsOffset == MaxOffset + MaxShift
Wall(z, t) == t + ZoneOffset(z, t)

\* The offset of z does not change at instant t.
NoDiscontinuityAt(z, t) == ZoneOffset(z, t - 1) = ZoneOffset(z, t)

\* No other instant of z shows the wall-clock reading of t.
Unambiguous(z, t) ==
    \A u \in (t - MaxAbsOffset)..(t + MaxAbsOffset) :
        u # t => Wall(z, u) # Wall(z, t)

\* The wall-clock reading w (as UTC) is shown by no instant of z, or by two.
InGap(z, w) ==
    \A u \in (w - MaxAbsOffset)..(w + MaxAbsOffset) : Wall(z, u) # w
InOverlap(z, w) ==
    \E u, v \in (w - MaxAbsOffset)..(w + MaxAbsOffset) :
        u # v /\ Wall(z, u) = w /\ Wall(z, v) = w

\* The offsets z uses around the wall-clock reading w read as UTC.
OffsetsNear(z, w) ==
    {ZoneOffset(z, u) : u \in (w - MaxAbsOffset)..(w + MaxAbsOffset)}

\* C6 as stated: for every instant t and zone z whose offset has no
\* discontinuity at t, the wall-clock fields of t converted back give t.
C6_RoundTripNoDiscontinuityAt ==
    (zpc = "done" /\ mode = "roundTrip" /\ NoDiscontinuityAt(zone, instant))
        => converted = instant

\* C6 amended: for every instant t whose wall-clock reading in z is shown by
\* no other instant of z, the wall-clock fields of t converted back give t.
C6_RoundTripUnambiguous ==
    (zpc = "done" /\ mode = "roundTrip" /\ Unambiguous(zone, instant))
        => converted = instant

\* A round trip that starts just after a change of offset, so that the first
\* guess is looked up on the other side of the change.
C6_Witness ==
    /\ zpc = "done"
    /\ mode = "roundTrip"
    /\ Unambiguous(zone, instant)
    /\ ZoneOffset(zone, localAsUtc) # ZoneOffset(zone, instant)
    /\ converted = instant

\* C7: for every wall-clock reading, also in a gap or an overlap, the loop
\* makes at most 4 offset lookups and returns the reading moved by one of the
\* offsets the zone uses around it.
C7_BoundedLookupsNearResult ==
    /\ lookups <= 4
    /\ zpc = "done" => (localAsUtc - converted) \in OffsetsNear(zone, localAsUtc)

\* A reading inside a spring-forward gap has been converted.
C7_Witness ==
    /\ zpc = "done"
    /\ mode = "wall"
    /\ InGap(zone, localAsUtc)
    /\ lookups = 4

\* C8: the Date the write side hands to the sink, reinterpreted by the read
\* side in the same zone, is the instant written, whatever the local time
\* zone of the process.
C8_WriteReadInverse ==
    (zpc = "done" /\ mode = "write" /\ Unambiguous(zone, instant))
        => converted = instant

(***************************************************************************)
(* Claims about the writers.                                               *)
(***************************************************************************)
\* A step that obtains an element of the row sequence or writes a row.
PullsOrWrites == wPulled' # wPulled \/ written' # written

\* C9: in objectsToXlsxStream writing to a Writable, no row is pulled or
\* written while the sink reports that it needs draining, and an 'error' of
\* the sink during the wait ends the wait and rejects the write.
C9_StreamHonorsDrain ==
    [][(variant = "stream" /\ outputIsWritable) =>
          /\ PullsOrWrites => ~needDrain
          /\ (wpc = "waitDrain" /\ ~sinkErrored /\ sinkErrored')
                => (wresult' = "rejectedSink" /\ ~listening')]_vars

\* The stream writer has resumed after a drain and written a further row.
C9_Witness ==
    /\ variant = "stream"
    /\ outputIsWritable
    /\ written >= 2
    /\ wpc = "waitDrain"

\* C10: objectsToXlsx writing to a Writable never hands a row to the sink
\* while the sink reports that it needs draining.
C10_PlainHonorsDrain ==
    (variant = "plain" /\ outputIsWritable) => overfill = 0

\* The columns a write without explicit columns takes from its first row: one
\* per key, in the row's key order, with the key as header.
KeysAsColumns(row) ==
    [i \in 1..Len(row) |-> [header |-> row[i].key, key |-> row[i].key,
                            width |-> NoWidth]]

KeysOf(row) == {row[i].key : i \in 1..Len(row)}

ColumnsSupplied == columns.given /\ columns.list # <<>>

NoColumnsResolvable ==
    /\ ~ColumnsSupplied
    /\ rowsLen = 0 \/ (Len(wRows) >= 1 /\ wRows[1] = <<>>)

\* C12: when no columns can be determined the write fails with the
\* unable-to-determine-columns error before any I/O: no sink, no header, no
\* row, and at most one element pulled.
C12_NoColumnsFailsBeforeIO ==
    NoColumnsResolvable =>
        /\ ~sinkCreated
        /\ sheetColumns = <<>>
        /\ sheetRows = <<>>
        /\ written = 0
        /\ wPulled <= 1
        /\ wpc \in {"start", "awaitFirst", "done"}
        /\ wpc = "done" => wresult = "rejectedColumns"

\* The write has failed on a first row that has no keys.
C12_Witness ==
    /\ wresult = "rejectedColumns"
    /\ wPulled = 1
    /\ rowsLen >= 2
    /\ wRows = << <<>> >>

\* Whether the write converts the property at position i of a row.
DateFieldToConvert(row, i) ==
    /\ wTimeZone.set
    /\ row[i].value.t = "date"
    /\ dateColumns = {} \/ row[i].key \in dateColumns

\* C18: a row reaches the sheet with the same keys, and a value differs from
\* the caller's only for a Date-valued field selected by dateColumns when a
\* time zone is set; without a time zone the row is handed over as it is, and
\* the caller's rows are left as they were.
C18_DateConversionFrame ==
    /\ Len(sheetRows) = written
    /\ callerRows = wRows
    /\ \A n \in 1..Len(sheetRows) :
          /\ Len(sheetRows[n]) = Len(wRows[n])
          /\ \A i \in 1..Len(wRows[n]) :
                /\ sheetRows[n][i].key = wRows[n][i].key
                /\ sheetRows[n][i].value # wRows[n][i].value
                      => DateFieldToConvert(wRows[n], i)
          /\ ~wTimeZone.set => sheetRows[n] = wRows[n]

\* With a time zone and dateColumns = {"b"}, a row was written whose Date in
\* column b was converted while a Date in another column was not.
C18_Witness ==
    /\ wTimeZone.set
    /\ dateColumns # {}
    /\ \E n \in 1..Len(sheetRows) : \E i, j \in 1..Len(wRows[n]) :
          /\ wRows[n][i].value.t = "date"
          /\ wRows[n][j].value.t = "date"
          /\ sheetRows[n][i].value # wRows[n][i].value
          /\ sheetRows[n][j].value = wRows[n][j].value

\* The places of a text where a piece begins: its start and each position
\* after a delimiter (counted as the position before the piece).
PieceStarts(text, d) == {0} \cup {i \in 1..Len(text) : text[i] = d}

\* The piece that begins after position lo and runs to the next delimiter.
PieceAfter(text, d, lo) ==
    LET ends == {i \in (lo + 1)..(Len(text) + 1) :
                    i = Len(text) + 1 \/ text[i] = d}
        hi == CHOOSE i \in ends : \A j \in ends : i <= j
    IN  SubSeq(text, lo + 1, hi - 1)

\* The pieces of a text between its delimiters, from left to right.
Pieces(text, d) ==
    LET starts == PieceStarts(text, d)
        nth(n) == CHOOSE x \in starts :
                      Cardinality({y \in starts : y < x}) = n - 1
    IN  [n \in 1..Cardinality(starts) |-> PieceAfter(text, d, nth(n))]

\* A text without the spaces at its two ends.
Stripped(text) ==
    LET solid == {i \in 1..Len(text) : text[i] # " "}
    IN  IF solid = {} THEN <<>>
        ELSE SubSeq(text, CHOOSE i \in solid : \A j \in solid : i <= j,
                          CHOOSE i \in solid : \A j \in solid : i >= j)

\* What the array of a listed column holds for a text: its pieces, stripped
\* when trimArrayItems is set, then without the empty ones when
\* removeEmptyArrayItems is set.
ExpectedItems(text, opts) ==
    LET pieces == Pieces(text, opts.arrayDelimiter)
        shaped == [n \in DOMAIN pieces |->
                      IF opts.trimArrayItems THEN Stripped(pieces[n])
                      ELSE pieces[n]]
        kept == IF opts.removeEmptyArrayItems
                THEN SelectSeq(shaped, LAMBDA piece : piece # <<>>)
                ELSE shaped
    IN  [n \in DOMAIN kept |-> Str(kept[n])]

\* C15: for a column listed in arrayColumns a text becomes the array of its
\* pieces (split, then trimmed, then emptied of empty items, as the options
\* say), null and the empty text become [], any other value v becomes [v]
\* and an array stays as it is; a column not listed keeps its value.
C15_ArraySplit ==
    cpc = "done" =>
        IF cColumn \notin cOpts.arrayColumns THEN cOut = cValue
        ELSE IF cValue = Null \/ cValue = Str(<<>>) THEN cOut = Arr(<<>>)
        ELSE IF cValue.t = "arr" THEN cOut = cValue
        ELSE IF cValue.t = "str" THEN cOut = Arr(ExpectedItems(cValue.s, cOpts))
        ELSE cOut = Arr(<<cValue>>)

\* "a, b ,,c" in a listed column under the default options became
\* ["a", "b", "c"].
C15_Witness ==
    /\ cpc = "done"
    /\ cValue = Str(ArrayExample)
    /\ cColumn \in cOpts.arrayColumns
    /\ cOpts.arrayDelimiter = ","
    /\ cOpts.trimArrayItems
    /\ cOpts.removeEmptyArrayItems
    /\ cOut = Arr(<<Str(<<"a">>), Str(<<"b">>), Str(<<"c">>)>>)

\* The text of the header cell at position i (1-based) after stringification,
\* optional trimming and the caller's rename function; a position without a
\* cell has the text of null.
HeaderText(i) ==
    LET value == IF headerValues[i] = Hole THEN Null ELSE headerValues[i]
        text == headerValueToString(value)
    IN  normalizeHeader(rOpts.normalizeHeader,
                        IF rOpts.trimHeaders THEN Stripped(text) ELSE text,
                        i - 1)

\* C13: at every position of the header row up to its last cell the column
\* name is column_<position> (counted from 1) when the cell's text is empty,
\* an absent or null cell included, and the text otherwise.
C13_HeaderDefaulting ==
    headers.set =>
        \A i \in 1..Len(headerValues) :
            PropertyKey(headers.names[i]) =
                IF HeaderText(i) = <<>> THEN ColumnName(i) ELSE HeaderText(i)

\* The raw cell values of a row are all null or the empty string.
RawEmpty(cells) ==
    \A col \in 1..Len(cells) :
        cells[col].value = Null \/ cells[col].value = Str(<<>>)

\* A value that is null or empty.
EmptyValue(value) == value \in {Null, Str(<<>>), Arr(<<>>)}

\* C14: with skipEmptyRows a row whose raw values are all null or '' is never
\* yielded; without it such a row after the header is yielded as a record
\* that has a null or empty value for every header column.
C14_EmptyRowSkip ==
    /\ (rOpts.skipEmptyRows /\ RawEmpty(lastRow.cells)) => lastOutcome # "yielded"
    /\ (~rOpts.skipEmptyRows /\ headers.set /\ lastRow.number > 0
          /\ lastRow.number # rOpts.headerRowNumber /\ RawEmpty(lastRow.cells)) =>
          /\ lastOutcome = "yielded"
          /\ \A i \in 1..Len(headers.names) :
                \E n \in 1..Len(lastRecord) :
                    /\ lastRecord[n].key = PropertyKey(headers.names[i])
                    /\ EmptyValue(lastRecord[n].value)

\* Without skipEmptyRows, a row holding only an empty string was yielded
\* after a header row that names columns.
C14_Witness ==
    /\ ~rOpts.skipEmptyRows
    /\ headers.set
    /\ Len(headers.names) >= 2
    /\ lastOutcome = "yielded"
    /\ Len(lastRow.cells) >= 1
    /\ RawEmpty(lastRow.cells)

\* sheetName is configured.
SheetFilterSet == rOpts.sheetName.t = "str" /\ rOpts.sheetName.s # <<>>

\* C17: with sheetName configured a record is yielded, and headers are set or
\* reset, only while the worksheet in hand has that name.
C17_SheetFilter ==
    [][(SheetFilterSet /\ (emitCount' # emitCount \/ headers' # headers))
          => (curSheet = rOpts.sheetName \/ curSheet' = rOpts.sheetName)]_vars

\* A worksheet was passed over by the filter and a record was then yielded
\* from a worksheet of the configured name.
C17_Witness ==
    /\ SheetFilterSet
    /\ skipped >= 1
    /\ curSheet = rOpts.sheetName
    /\ lastOutcome = "yielded"

\* A record as the set of its properties.
PropsOf(obj) == {obj[i] : i \in 1..Len(obj)}

\* Two values are equivalent: the same value, or both null or empty.
Equivalent(v, w) == v = w \/ (v \in {Null, Str(<<>>)} /\ w \in {Null, Str(<<>>)})

\* Two records have the same keys and equivalent values.
SameRecord(read, given) ==
    /\ KeysOf(read) = KeysOf(given)
    /\ \A p \in PropsOf(read) : \A q \in PropsOf(given) :
          p.key = q.key => Equivalent(p.value, q.value)

\* The whole sequence has been handed to the writer.
AllRowsGiven == Len(wRows) = rowsLen

\* C16 as stated: any finite sequence of records is written, and read back
\* as the same number of records in the same order with the same keys and
\* equivalent values.
C16_RoundTripAnyRows ==
    /\ wpc = "done" => wresult = "resolved"
    /\ lastOutcome = "yielded" => SameRecord(lastRecord, wRows[emitCount])
    /\ rpc = "done" => emitCount = Len(wRows)

\* Every record has the keys of the first one, and a value that is not null
\* or the empty string.
UniformRows ==
    /\ wRows # <<>>
    /\ \A n \in 1..Len(wRows) :
          /\ KeysOf(wRows[n]) = KeysOf(wRows[1])
          /\ \E p \in PropsOf(wRows[n]) : p.value \notin {Null, Str(<<>>)}

\* C16, amended: a non-empty sequence of records that all have the keys of
\* the first one and each a non-empty value is written, and read back as the
\* same number of records in the same order with the same keys and
\* equivalent values.
C16_RoundTripUniformRows ==
    (AllRowsGiven /\ UniformRows) =>
        /\ wpc = "done" => wresult = "resolved"
        /\ lastOutcome = "yielded" => SameRecord(lastRecord, wRows[emitCount])
        /\ rpc = "done" => emitCount = Len(wRows)

\* Two or more records with the keys in different orders were written and
\* all read back.
C16_Witness ==
    /\ UniformRows
    /\ Len(wRows) >= 2
    /\ \E n \in 2..Len(wRows) : wRows[n] # wRows[1]
    /\ rpc = "done"
    /\ emitCount = Len(wRows)

\* A step that is one iteration of the loop of localDateTimeInZoneToUtc.
LoopStep == zpc = "loop" /\ lookups' = lookups + 1

\* What an iteration does with its candidate: return the guess when the
\* candidate equals it, else go on from the candidate.
IterationWith(candidate) ==
    IF candidate = guess
    THEN zpc' = "done" /\ converted' = guess
    ELSE guess' = candidate /\ zpc' = "loop"

\* The loop starts from the wall-clock fields read as UTC and makes at most 4
\* iterations.
LoopFrame ==
    /\ (zpc = "parts" /\ zpc' = "loop") => guess' = toUtcMillis(parts)
    /\ LoopStep => attempt < 4

\* C26 as stated: each iteration takes as candidate the current guess minus
\* the offset looked up at the guess.
C26_CandidateFromGuess ==
    [][/\ LoopFrame
       /\ LoopStep =>
             IterationWith(guess - getTimeZoneOffsetMs(guess, zone))]_vars

\* C26, amended: each iteration takes as candidate the wall-clock fields read
\* as UTC minus the offset looked up at the guess.
C26_CandidateFromWallClock ==
    [][/\ LoopFrame
       /\ LoopStep =>
             IterationWith(toUtcMillis(parts) - getTimeZoneOffsetMs(guess, zone))]_vars

\* The loop has returned after an iteration that moved the guess away from the
\* reading in a zone whose offset is not zero there.
C26_Witness ==
    /\ zpc = "done"
    /\ attempt >= 1
    /\ lookups >= 2
    /\ converted # localAsUtc
    /\ converted = localAsUtc - getTimeZoneOffsetMs(converted, zone)

(***************************************************************************)
(* C30: bounded buffering in processXlsxLarge.                             *)
(***************************************************************************)
WindowInProgress == pc \in {"launch", "awaitRace", "awaitAll", "awaitBatch"}
RowPulled == pulled' = pulled + 1

\* C30: for an integer batchSize >= 1 the batch buffer never holds more than
\* batchSize rows, and a row is pulled from the source only while no window is
\* being launched or awaited: the buffer then has room and every handler
\* started so far has settled.
C30_BoundedBuffering ==
    [][batchSize >= 1 =>
         /\ Len(batch) <= batchSize
         /\ Len(batch') <= batchSize
         /\ RowPulled => /\ ~WindowInProgress
                         /\ Len(batch) < batchSize
                         /\ Outstanding = {}]_vars

\* A second window's first row is pulled after a full window has run.
C30_Witness ==
    /\ batchSize >= 2
    /\ pulled = batchSize + 1
    /\ Len(batch) = 1
    /\ pc = "next"
    /\ Outstanding = {}
    /\ \A i \in 1..batchSize : Settled(pstate[i])

(***************************************************************************)
(* C28: objectsToXlsx reads the rows in one pass with one row of lookahead. *)
(***************************************************************************)
MappedRows ==
    [i \in DOMAIN wRows |->
        mapRowForExcelWrite(wRows[i], wTimeZone, dateColumns, procOffset)]
ColumnsSetNow == sinkCreated' /\ ~sinkCreated
RowAddedNow == sheetRows' # sheetRows

\* C28: objectsToXlsx pulls the first element and only then sets the columns,
\* once and on a sheet without rows; from then on the rows of the sheet are
\* the elements pulled so far, the looked-ahead one included, each once and
\* in sequence order; each step pulls at most one element and adds it at
\* once; the commit comes after the last element has been added.
C28_SinglePassLookahead ==
    [][variant = "plain" =>
         /\ ColumnsSetNow =>
               /\ wpc = "awaitFirst"
               /\ wPulled = 0 /\ sheetRows = <<>>
               /\ wPulled' = (IF rowsLen = 0 THEN 0 ELSE 1)
         /\ sheetColumns' # sheetColumns => ColumnsSetNow
         /\ RowAddedNow => sinkCreated'
         /\ wPulled' \in {wPulled, wPulled + 1}
         /\ Len(wRows') = wPulled'
         /\ sinkCreated' => sheetRows' = MappedRows'
         /\ wpc' = "commit" => (wPulled' = rowsLen /\ Len(sheetRows') = rowsLen)
         /\ (wresult' = "resolved" /\ wresult # "resolved") =>
               /\ wpc = "commit"
               /\ sheetRows' = MappedRows
               /\ Len(sheetRows') = rowsLen]_vars

\* Three rows, the first of them the looked-ahead one, are on the sheet in
\* sequence order when the workbook is committed.
C28_Witness ==
    /\ variant = "plain"
    /\ wresult = "resolved"
    /\ rowsLen = 3
    /\ wRows[1] # wRows[2] /\ wRows[2] # wRows[3]
    /\ sheetRows = MappedRows
    /\ sheetColumns # <<>>

(***************************************************************************)
(* C21, C22, C27: the rows of a worksheet and the records made of them.    *)
(***************************************************************************)
RowHandedOver == rpc = "rows" /\ rpc' = "rows" /\ lastRow' # lastRow
SheetStarted == rpc = "sheets" /\ rpc' = "rows"
RecordEmitted == emitCount' # emitCount
HeaderNamesSeen == HeadersOf(getRowValues(headerRowSeen.cells), rOpts)

\* C21: a record is emitted only for a row handed over after the row numbered
\* headerRowNumber of the same worksheet, and it is keyed by that row's
\* headers; a row with a smaller number yields nothing and leaves the headers
\* alone; at the start of every worksheet there are no headers.
C21_HeaderPerSheet ==
    [][/\ RecordEmitted =>
            /\ RowHandedOver
            /\ headerRowSeen # NoRow
            /\ headerRowSeen.number = rOpts.headerRowNumber
            /\ lastRow'.number > headerRowSeen.number
            /\ headers = Headers(HeaderNamesSeen)
            /\ lastRecord' = RecordFrom(<<>>, 1, HeaderNamesSeen,
                                        lastRow'.cells, rOpts)
       /\ (RowHandedOver /\ lastRow'.number < rOpts.headerRowNumber) =>
            /\ ~RecordEmitted
            /\ ~headers'.set
       /\ SheetStarted => (~headers'.set /\ sheetEmits' = 0)
       /\ (rpc' = "rows" /\ headerRowSeen' = NoRow) => ~headers'.set]_vars

\* The second worksheet has no header row: its row after the header position
\* is dropped although the first worksheet had headers and gave a record.
C21_Witness ==
    /\ rpc = "rows"
    /\ sheetsSeen = 2 /\ skipped = 0
    /\ emitCount >= 1 /\ sheetEmits = 0
    /\ lastOutcome = "noHeaders"
    /\ lastRow.number > rOpts.headerRowNumber
    /\ lastRow.cells # <<>>

\* Headers that name no column after a cell's text: each is the default name
\* of its position, or is missing where the row has no cell.
EmptyHeaders(names) ==
    \A i \in DOMAIN names : names[i] = Hole \/ names[i] = Str(ColumnName(i))

\* C22: a row numbered headerRowNumber whose raw values are all null or ''
\* is, with skipEmptyRows, skipped as empty: no headers are set by it, and the
\* worksheet has no headers and yields no record, whatever rows follow;
\* without skipEmptyRows the row becomes a header that names no column.
C22_EmptyHeaderRow ==
    [][/\ (RowHandedOver /\ lastRow'.number = rOpts.headerRowNumber
              /\ RawEmpty(lastRow'.cells)) =>
            IF rOpts.skipEmptyRows
            THEN /\ lastOutcome' = "empty"
                 /\ ~headers'.set
                 /\ ~RecordEmitted
            ELSE /\ lastOutcome' = "header"
                 /\ headers'.set
                 /\ DOMAIN headers'.names = DOMAIN getRowValues(lastRow'.cells)
                 /\ EmptyHeaders(headers'.names)
                 /\ ~RecordEmitted
       /\ (rpc' = "rows" /\ rOpts.skipEmptyRows /\ headerRowSeen' # NoRow
              /\ RawEmpty(headerRowSeen'.cells)) =>
            /\ ~headers'.set
            /\ sheetEmits' = 0]_vars

\* The header row held only an empty string and was skipped; the row with
\* values that came after it was dropped for want of headers.
C22_Witness ==
    /\ rOpts.skipEmptyRows
    /\ rpc = "rows"
    /\ headerRowSeen # NoRow
    /\ Len(headerRowSeen.cells) >= 1
    /\ RawEmpty(headerRowSeen.cells)
    /\ lastRow.number > headerRowSeen.number
    /\ ~RawEmpty(lastRow.cells)
    /\ lastOutcome = "noHeaders"
    /\ sheetEmits = 0

\* The row is skipped as empty under the options in force.
SkippedEmpty(row) == rOpts.skipEmptyRows /\ RawEmpty(row.cells)

\* The row handed over in this step follows the header row of its worksheet
\* and is not skipped as empty.
DataRowHandedOver ==
    /\ RowHandedOver
    /\ headerRowSeen # NoRow
    /\ ~SkippedEmpty(headerRowSeen)
    /\ lastRow'.number > headerRowSeen.number
    /\ ~SkippedEmpty(lastRow')

\* C27: a row that follows the header row of a selected worksheet and is not
\* skipped as empty yields, when it is handed over, exactly one record, made
\* of that row; nothing else yields a record, so the records come one per
\* such row and in the order of the rows.
C27_OneRecordPerDataRow ==
    [][IF DataRowHandedOver
       THEN /\ emitCount' = emitCount + 1
            /\ sheetEmits' = sheetEmits + 1
            /\ lastOutcome' = "yielded"
            /\ lastRecord' = RecordFrom(<<>>, 1, HeaderNamesSeen,
                                        lastRow'.cells, rOpts)
       ELSE emitCount' = emitCount]_vars

\* Rows 2 and 3 of a worksheet whose header is row 1 have each given a
\* record, from different cells.
C27_Witness ==
    /\ rpc = "rows"
    /\ headerRowSeen.number = 1
    /\ lastRow.number = 3
    /\ lastOutcome = "yielded"
    /\ sheetEmits = 2
    /\ lastRecord # <<>>

(***************************************************************************)
(* C29: a timeZone that names no zone.                                     *)
(***************************************************************************)
Unresolvable(timeZone) == timeZone = UnknownTimeZone

\* C29: with a timeZone that names no zone, xlsxToObjects fails on its first
\* pull, before the workbook reader is made or a record is emitted, and
\* objectsToXlsx rejects before an element is pulled or the sink is made,
\* whatever the rows hold.
C29_UnknownZoneFatal ==
    [][/\ Unresolvable(rOpts.timeZone) =>
            /\ rpc' \in {"start", "failed"}
            /\ rpc = "start" /\ rpc' # rpc => rpc' = "failed"
            /\ sheetsSeen' = 0 /\ emitCount' = 0
       /\ (variant' = "plain" /\ Unresolvable(wTimeZone')) =>
            /\ wpc' \in {"start", "done"}
            /\ wpc' = "done" => wresult' = "rejectedTimeZone"
            /\ wPulled' = 0 /\ wRows' = <<>>
            /\ ~sinkCreated' /\ sheetColumns' = <<>>]_vars

\* Both calls have failed on the unknown zone: the read before any worksheet,
\* the write of three rows before any of them was pulled.
C29_Witness ==
    /\ Unresolvable(rOpts.timeZone)
    /\ rpc = "failed" /\ sheetsSeen = 0
    /\ variant = "plain"
    /\ wresult = "rejectedTimeZone"
    /\ rowsLen = 3 /\ wPulled = 0 /\ ~sinkCreated

(***************************************************************************)
(* C23, C24, C25: normalizeCellValue.                                      *)
(***************************************************************************)
Normalized == cpc = "done" /\ "numFmt" \in DOMAIN cValue
HasDateLetter(numFmt) ==
    \E i \in 1..Len(numFmt) :
        \E letter \in {<<"d", "D">>, <<"m", "M">>, <<"y", "Y">>, <<"h", "H">>,
                        <<"s", "S">>} :
            numFmt[i] = letter[1] \/ numFmt[i] = letter[2]
DateSerialCell ==
    /\ cValue.value.t = "num"
    /\ cOpts.parseDates
    /\ HasDateLetter(cValue.numFmt)

\* The serial is a finite number of days that lands within the range of
\* timestamps, 100,000,000 days either side of 1970-01-01.
FormsTimestamp(value, date1904) ==
    /\ "n" \in DOMAIN value
    /\ LET day == value.n + (IF date1904 THEN 1462 ELSE 0)
       IN  /\ day <= 25569 + 100000000
           /\ day >= 25569 - 100000000

\* C23: for a formula cell the value produced is what normalizeCellValue
\* produces for a plain cell that holds the cached result, with the same
\* format and options; a missing result gives null.
C23_FormulaResultNormalized ==
    (Normalized /\ cValue.value.t = "formula") =>
        cOut = normalizeCellValue(FormattedCell(cValue.value.result, cValue.numFmt),
                                  cOpts.parseDates, cOpts.date1904,
                                  cOpts.timeZone)

\* C24: for a numeric cell with a date-like format and parseDates whose
\* serial cannot form a finite timestamp, the raw number is returned, with or
\* without a time zone.
C24_UnparseableSerialFallsBack ==
    (Normalized /\ DateSerialCell
        /\ ~FormsTimestamp(cValue.value, cOpts.date1904)) =>
        cOut = cValue.value

\* C25: a numeric cell whose serial forms a timestamp becomes a date exactly
\* when parseDates is on and its format has one of d, m, y, h, s in either
\* case; the date is serial days after 1899-12-30, or after 1904-01-01 (1462
\* days later) in 1904 mode, reinterpreted in the zone when one is given;
\* otherwise the number is returned unchanged.
C25_DateSerialConversion ==
    (Normalized /\ cValue.value.t = "num"
        /\ FormsTimestamp(cValue.value, cOpts.date1904)) =>
        IF cOpts.parseDates /\ HasDateLetter(cValue.numFmt)
        THEN LET epoch == IF cOpts.date1904 THEN 1462 * HoursPerDay ELSE 0
                 time == epoch + cValue.value.n * HoursPerDay
             IN  cOut = DateOf(IF cOpts.timeZone.set
                               THEN reinterpretDateToTimeZone(time,
                                                              cOpts.timeZone.zone)
                               ELSE time)
        ELSE cOut = cValue.value

\* Serial 2 under an upper-case time format, in 1904 mode and in a zone, has
\* become a date other than the one the serial names in UTC.
C25_Witness ==
    /\ Normalized
    /\ cValue = FormattedCell(Num(2), <<"H", ":", "M", "M">>)
    /\ cOpts.parseDates /\ cOpts.date1904 /\ cOpts.timeZone.set
    /\ cOut.t = "date"
    /\ cOut # DateOf((1462 + 2) * HoursPerDay)

(***************************************************************************)
(* C35: reading without sheetName.                                         *)
(***************************************************************************)
WorksheetHandedOver == sheetsSeen' = sheetsSeen + 1
WorksheetLeft == rpc = "rows" /\ rpc' # "rows"

ResolvedName(i) == IF HeaderText(i) = <<>> THEN ColumnName(i) ELSE HeaderText(i)

\* The positions whose name no earlier position has, in ascending order.
RECURSIVE FirstPositionsFrom(_)
FirstPositionsFrom(i) ==
    IF i > Len(headerValues) THEN <<>>
    ELSE (IF \E j \in 1..(i - 1) : ResolvedName(j) = ResolvedName(i)
          THEN <<>> ELSE <<i>>) \o FirstPositionsFrom(i + 1)

\* The last position that has the name of position i.
LastPositionOf(i) ==
    CHOOSE j \in i..Len(headerValues) :
        /\ ResolvedName(j) = ResolvedName(i)
        /\ \A later \in (j + 1)..Len(headerValues) :
              ResolvedName(later) # ResolvedName(i)

\* The value the reader makes of the cell at a position of the last row.
ValueAtPosition(i) ==
    RecordFrom(<<>>, 1, <<Str(ResolvedName(i))>>, <<getCell(lastRow.cells, i)>>,
               rOpts)[1].value

\* C34: the keys of an emitted record are the resolved header names, each
\* once and in header order; the value under a name is that of the last
\* header position with the name, null where the row has no cell; cells
\* beyond the header give no key.
C34_RecordKeys ==
    (rpc = "rows" /\ lastOutcome = "yielded") =>
        LET positions == FirstPositionsFrom(1)
        IN  /\ Len(lastRecord) = Len(positions)
            /\ \A n \in 1..Len(positions) :
                  /\ lastRecord[n].key = ResolvedName(positions[n])
                  /\ lastRecord[n].value =
                        ValueAtPosition(LastPositionOf(positions[n]))
                  /\ LastPositionOf(positions[n]) > Len(lastRow.cells)
                        => EmptyValue(lastRecord[n].value)

(***************************************************************************)
(* C33: the loop ends at a fixed point.                                    *)
(***************************************************************************)
\* C33: for a wall-clock reading that some instant of the zone shows, the
\* instant returned shows that reading in the zone, and the loop left by
\* finding candidate equal to guess within its 4 iterations.
C33_FixedPointOutsideGap ==
    (zpc = "done" /\ ~InGap(zone, localAsUtc)) =>
        /\ getTimeZoneParts(converted, zone) = parts
        /\ converted = localAsUtc - getTimeZoneOffsetMs(converted, zone)
        /\ lookups <= 4
        /\ attempt < 4

\* A reading next to a change of offset, shown by an instant of the zone, was
\* converted after the guess had been corrected twice.
C33_Witness ==
    /\ zpc = "done"
    /\ ~InGap(zone, localAsUtc)
    /\ attempt = 2
    /\ lookups = 3
    /\ getTimeZoneParts(converted, zone) = parts

(***************************************************************************)
(* Claims about the drain wait of objectsToXlsxStream.                     *)
(***************************************************************************)
Suspended == variant = "stream" /\ wpc = "waitDrain"

\* The sink has not failed, so it still emits 'drain' or 'error'.
SinkEmits == ~sinkErrored

SinkEmitted == SinkDrains \/ SinkErrors

Resumed == wpc = "awaitNext"

Rejected == wpc = "done" /\ wresult = "rejectedSink"

\* C32: no wake-up is lost in the drain wait of objectsToXlsxStream.  The
\* writer is suspended only with its listeners registered (the check of
\* writableNeedDrain and the registration are one step); a 'drain' or an
\* 'error' emitted while it is suspended resumes it or rejects; and a writer
\* suspended on a sink that goes on emitting eventually resumes or rejects.
C32_NoLostWakeup ==
    /\ [](Suspended => listening /\ needDrain)
    /\ [][(Suspended /\ SinkEmitted) => (Resumed' \/ Rejected')]_vars
    /\ (Suspended /\ SinkEmits) ~> (Resumed \/ Rejected)

\* The writer is suspended after its second row with its listeners on, on a
\* sink that can still emit.
C32_Witness ==
    /\ Suspended
    /\ SinkEmits
    /\ listening
    /\ written = 2

(***************************************************************************)
(* Claims about the completion of processXlsxLarge.                        *)
(***************************************************************************)
Emitted == 1..srcLen

HandlerCompleted(i) == Settled(pstate[i])

ResolvedSuccessfully == result = "resolved"

CallSettled == result # "pending"

\* C31: when processXlsxLarge has resolved, the reader has been read to its
\* end and the handler has been started and has completed for every record
\* it emitted, those of a final window shorter than batchSize included; and
\* with a source that ends and handlers that complete the call eventually
\* settles.
C31_CompletesEveryRecord ==
    /\ [](ResolvedSuccessfully =>
            /\ pulled = srcLen
            /\ \A i \in Emitted : HandlerCompleted(i))
    /\ <>CallSettled

\* The call has resolved after a full window and a final window shorter than
\* batchSize.
C31_Witness ==
    /\ ResolvedSuccessfully
    /\ final
    /\ srcLen > batchSize
    /\ srcLen % batchSize # 0
    /\ \A i \in Emitted : HandlerCompleted(i)

====
